---- MODULE Spec2Model ----
(***************************************************************************)
(* A state-machine model of the bare server (tomphttp/bare-server-node):   *)
(* the server core (routeRequest / routeUpgrade, rate check, error         *)
(* funnel), the v1/v2/v3 handlers (envelope parsing, outbound fetch,       *)
(* WebSocket relay), the meta store with its reaper, and the SSRF filter.  *)
(*                                                                         *)
(* Every exchange (one inbound HTTP request or one inbound upgrade) lives  *)
(* in a slot; one action is one run of the handler from one suspension     *)
(* point (await) to the next.                                              *)
(***************************************************************************)
EXTENDS Integers, Sequences, FiniteSets, TLC

(***************************************************************************)
(* Bounds of the model.                                                    *)
(***************************************************************************)
MaxEx == 2         \* exchanges in flight at once
MaxReq == 3        \* exchanges started in one behaviour
MaxSeq == 2        \* exchanges started one after the other in SpecEnvelope
MaxMeta == 2       \* exchanges started in SpecReaper
MaxIds == 2        \* meta ids the behaviour may use
MaxEpochs == 2     \* jumps of the clock by one meta TTL
MaxSkew == 1       \* 1 ms steps of the clock after each jump
MaxHdr == 1        \* names in a client-supplied header list
LimiterPoints == 1 \* connectionLimiter.maxConnectionsPerIP of the run
MaxParts == 2      \* x-bare-headers fragments a remote's headers can fill
ManyParts == 11    \* fragments of the longest x-bare-headers value that is split
MaxProtocol == 2   \* characters of a string given to encodeProtocol
MaxEncoded == 3    \* characters of a string given to decodeProtocol alone
MaxFaults == 2     \* headers of an envelope that are absent, wrong or unusual
MaxMessages == 2   \* messages the remote of a WebSocket session sends
MaxPass == 2       \* names a client lists in x-bare-pass-headers

(***************************************************************************)
(* Program constants.                                                      *)
(***************************************************************************)
metaExpiration == 30000
cacheNotModified == 304
MAX_HEADER_VALUE == 3072
nullBodyStatus == {101, 204, 205, 304}

Slots == 1..MaxEx
Ids == 1..MaxIds
NoId == 0
MaxTime == MaxEpochs * metaExpiration + MaxSkew

(***************************************************************************)
(* Header names.  JavaScript object keys are case-sensitive; the fetch     *)
(* Headers object and the forbidden lists work on lower-cased names.       *)
(* toLowerCase is modelled as a table over the names the model uses.       *)
(***************************************************************************)
toLowerCase(name) ==
    CASE name = "Connection" -> "connection"
      [] name = "Content-Length" -> "content-length"
      [] name = "Transfer-Encoding" -> "transfer-encoding"
      [] name = "Host" -> "host"
      [] name = "Origin" -> "origin"
      [] name = "Referer" -> "referer"
      [] name = "Accept-Language" -> "accept-language"
      [] name = "User-Agent" -> "user-agent"
      [] name = "Vary" -> "vary"
      [] name = "ETag" -> "etag"
      [] name = "Access-Control-Max-Age" -> "access-control-max-age"
      [] name = "Access-Control-Allow-Origin" -> "access-control-allow-origin"
      [] OTHER -> name

forbiddenSendHeaders == {"connection", "content-length", "transfer-encoding"}

forbiddenForwardHeadersV1 == {"connection", "transfer-encoding", "origin", "referer"}

forbiddenForwardHeaders ==
    {"connection", "transfer-encoding", "host", "origin", "referer"}

defaultForwardHeadersV2 ==
    {"accept-encoding", "accept-language", "sec-websocket-extensions",
     "sec-websocket-key", "sec-websocket-version"}

defaultForwardHeadersV3 == {"accept-encoding", "accept-language"}

(***************************************************************************)
(* Errors a handler can throw, and the response routeRequest makes of one. *)
(***************************************************************************)
NoError == [kind |-> "none", status |-> 0, code |-> "", id |-> ""]

BareError(status, code, id) ==
    [kind |-> "BareError", status |-> status, code |-> code, id |-> id]

\* createHttpError.InternalServerError(): statusCode 500
HttpInternalServerError ==
    [kind |-> "HttpError", status |-> 500, code |-> "", id |-> "InternalServerError"]

\* createHttpError.NotFound(): an http-errors error with statusCode 404
HttpNotFound == [kind |-> "HttpError", status |-> 404, code |-> "", id |-> "NotFoundError"]

\* any other Error (RangeError, TypeError, SyntaxError, Error)
PlainError(name) == [kind |-> "Error", status |-> 0, code |-> "", id |-> name]

\* a thrown value that is no Error (a promise rejected with a string)
ThrownValue == [kind |-> "value", status |-> 0, code |-> "", id |-> ""]

\* the envelope headers that describe the remote's response: x-bare-status
\* (the status, 0 when the header is not set), x-bare-status-text (named by
\* its status), x-bare-headers (the length of its value, 0 when not set) and
\* x-bare-headers-0, -1, ... (the lengths of their values)
BareHeaders(status, length) ==
    [status |-> status, text |-> status, whole |-> length, parts |-> <<>>]

NoBareHeaders == BareHeaders(0, 0)

\* what the remote answers: its status and the length of the JSON of its headers
Upstream(status, length) == [status |-> status, length |-> length]

NoUpstream == Upstream(0, 0)

PlainUpstream == Upstream(200, 2)

\* the headers of the 429 answer besides Content-Type
RateLimitHeaders == {"Retry-After", "RateLimit-Limit", "RateLimit-Remaining", "RateLimit-Reset"}

NoResponse ==
    [status |-> 0, code |-> "", id |-> "", cors |-> FALSE, body |-> FALSE, bare |-> FALSE,
     rate |-> {}, headers |-> NoBareHeaders, versions |-> <<>>]

(***************************************************************************)
(* Requests.  A request is what the listener hands to routeRequest or      *)
(* routeUpgrade: method, sub-path under the mount prefix, and the headers  *)
(* the handlers read.                                                      *)
(*   missing   the one required envelope header the request lacks, or none *)
(*   bare      the names (keys) of the x-bare-headers JSON object; for a   *)
(*             v1 upgrade the keys of the payload's headers; for v3 the    *)
(*             keys of the connect message's headers                       *)
(*   fwd       the names listed in x-bare-forward-headers (payload         *)
(*             forward_headers, connect forwardHeaders)                    *)
(*   inbound   the lower-cased names of the other inbound request headers  *)
(*   id        x-bare-id (ws-meta), the id of the v1 payload, the v2       *)
(*             Sec-WebSocket-Protocol, or the id randomHex draws for a     *)
(*             ws-new-meta request; NoId when absent                       *)
(*   host      the remote host: a DNS name, a unicast IP literal, or a     *)
(*             non-unicast (loopback, private) IP literal                  *)
(*   cache     the URL has the cache query key                             *)
(*   pass      the status codes listed in x-bare-pass-status                *)
(*   body      the request has a body that is still arriving               *)
(*   wsproto   for a v1 upgrade the Sec-WebSocket-Protocol header: absent, *)
(*             "bare" with the payload (ok), or another protocol; for a v3 *)
(*             upgrade the first message: none before the timeout, a       *)
(*             connect message (ok), or another message                    *)
(***************************************************************************)
Services ==
    {"/", "/v1/", "/v1/ws-new-meta", "/v1/ws-meta",
     "/v2/", "/v2/ws-new-meta", "/v2/ws-meta", "/v3/", "/v4/"}

Hosts == {"name", "ip_unicast", "ip_local"}

InboundAll == {"host", "origin", "connection", "content-length", "accept-language"}

ClientNames == {"Connection", "content-length", "Host", "User-Agent"}

ForwardNames == {"Content-Length", "Origin", "host", "accept-language"}

Request(kind, method, service, id, host, proto, missing, bare, fwd, inbound, wsproto) ==
    [kind |-> kind, method |-> method, service |-> service, id |-> id,
     host |-> host, proto |-> proto, missing |-> missing, bare |-> bare,
     fwd |-> fwd, inbound |-> inbound, wsproto |-> wsproto,
     cache |-> FALSE, pass |-> {}, body |-> FALSE]

NoRequest == Request("none", "", "", NoId, "name", "http:", "none", {}, {}, {}, "absent")

Version(service) ==
    CASE service \in {"/v1/", "/v1/ws-new-meta", "/v1/ws-meta"} -> 1
      [] service \in {"/v2/", "/v2/ws-new-meta", "/v2/ws-meta"} -> 2
      [] service = "/v3/" -> 3
      [] OTHER -> 0

IsTunnel(service) == service \in {"/v1/", "/v2/", "/v3/"}
IsNewMeta(service) == service \in {"/v1/ws-new-meta", "/v2/ws-new-meta"}
IsGetMeta(service) == service \in {"/v1/ws-meta", "/v2/ws-meta"}

(***************************************************************************)
(* Envelope parsing.                                                       *)
(***************************************************************************)
FromClient(names) == [n \in names |-> "client"]

NoHeaders == FromClient({})

\* for (const header of forward) if (request.headers.has(header)) target[header] = ...
loadForwardedHeaders(forward, target, inbound) ==
    LET add == {h \in forward : toLowerCase(h) \in inbound}
    IN  [n \in (DOMAIN target) \cup add |-> IF n \in add THEN "inbound" ELSE target[n]]

\* the keys of x-bare-headers that are kept
FilterSendV1(bare) == {h \in bare : toLowerCase(h) \notin forbiddenSendHeaders}
FilterSendV2(bare) == {h \in bare : toLowerCase(h) \notin forbiddenSendHeaders}
FilterSendV3(bare) == {h \in bare : toLowerCase(h) \notin forbiddenSendHeaders}

Parsed(err, send, forward) == [err |-> err, send |-> send, forward |-> forward]

MissingHeader(name) == BareError(400, "MISSING_BARE_HEADER", name)

readHeadersV1(req) ==
    IF req.missing \in {"x-bare-host", "x-bare-port", "x-bare-protocol", "x-bare-path"}
    THEN Parsed(MissingHeader(req.missing), NoHeaders, {})
    ELSE IF req.missing = "x-bare-headers"
    THEN Parsed(MissingHeader("x-bare-headers"), NoHeaders, {})
    ELSE IF req.missing = "x-bare-forward-headers"
    THEN Parsed(MissingHeader("x-bare-forward-headers"), NoHeaders, {})
    ELSE LET forwardHeaders ==
                 {toLowerCase(h) : h \in req.fwd} \ forbiddenForwardHeadersV1
         IN  Parsed(NoError,
                    loadForwardedHeaders(forwardHeaders,
                                         FromClient(FilterSendV1(req.bare)),
                                         req.inbound),
                    forwardHeaders)

ForwardListV2(req) ==
    IF req.missing = "x-bare-forward-headers" THEN {}
    ELSE {toLowerCase(h) : h \in req.fwd}

readHeadersV2(req) ==
    IF req.missing \in {"x-bare-host", "x-bare-port", "x-bare-protocol", "x-bare-path"}
    THEN Parsed(MissingHeader(req.missing), NoHeaders, {})
    ELSE IF req.missing = "x-bare-headers"
    THEN Parsed(MissingHeader("x-bare-headers"), NoHeaders, {})
    ELSE IF ForwardListV2(req) \cap forbiddenForwardHeaders # {}
    THEN Parsed(BareError(400, "FORBIDDEN_BARE_HEADER", "x-bare-forward-headers"),
                NoHeaders, {})
    ELSE Parsed(NoError, FromClient(FilterSendV2(req.bare)),
                defaultForwardHeadersV2 \cup ForwardListV2(req))

readHeadersV3(req) ==
    IF req.missing = "x-bare-url"
    THEN Parsed(MissingHeader("x-bare-url"), NoHeaders, {})
    ELSE IF req.missing = "x-bare-headers"
    THEN Parsed(MissingHeader("x-bare-headers"), NoHeaders, {})
    ELSE IF ForwardListV2(req) \cap forbiddenForwardHeaders # {}
    THEN Parsed(BareError(400, "FORBIDDEN_BARE_HEADER", "x-bare-forward-headers"),
                NoHeaders, {})
    ELSE Parsed(NoError, FromClient(FilterSendV3(req.bare)),
                defaultForwardHeadersV3 \cup ForwardListV2(req))

\* a readHeaders whose cache mode adds no status
passStatusNoCache(req) ==
    IF Version(req.service) = 1 THEN {} ELSE req.pass

\* the passStatus of readHeaders (V2.ts, V3.ts); V1.ts has none
passStatus(req) ==
    IF Version(req.service) = 1 THEN {}
    ELSE (IF req.cache THEN {cacheNotModified} ELSE {}) \cup req.pass

readHeaders(req) ==
    CASE Version(req.service) = 1 -> readHeadersV1(req)
      [] Version(req.service) = 2 -> readHeadersV2(req)
      [] OTHER -> readHeadersV3(req)

(***************************************************************************)
(* The request sets.  PlainRequests are the requests of the concurrent     *)
(* specification (meta store, relay), MetaRequests those of the reaper's;  *)
(* RichRequests those of the specification that varies the envelope and    *)
(* the remote.  The v1 and v2 routes are registered (legacySupport).       *)
(***************************************************************************)
Plain(kind, service, id) ==
    Request(kind, "GET", service, id, "name",
            IF kind = "upgrade" \/ IsNewMeta(service) THEN "ws:" ELSE "http:",
            "none", {}, {}, {"host"}, IF kind = "upgrade" THEN "ok" ELSE "absent")

PlainRequests ==
    {Plain("http", s, NoId) : s \in {"/v1/ws-new-meta", "/v2/ws-new-meta"}}
    \cup {Plain("http", s, i) : s \in {"/v1/ws-meta", "/v2/ws-meta"}, i \in Ids}
    \cup {Plain("upgrade", s, i) : s \in {"/v1/", "/v2/"}, i \in Ids}

MetaRequests == {r \in PlainRequests : r.kind = "http"}

Inbounds == {InboundAll, {"host"}}

Remotes == Hosts \X {"http:", "ws:"}

MetaRemotes == {<<"name", "ws:">>, <<"ip_local", "ws:">>, <<"name", "http:">>}

\* the header names a client puts in its two lists, MaxHdr names in all
HeaderLists ==
    {l \in (SUBSET ClientNames) \X (SUBSET ForwardNames) :
        Cardinality(l[1]) + Cardinality(l[2]) <= MaxHdr}

\* the two lists of a ws-new-meta request: one name in one of them
MetaLists ==
    {<<{"Connection"}, {}>>, <<{"User-Agent"}, {}>>, <<{}, {"Content-Length"}>>,
     <<{}, {"Origin"}>>, <<{}, {"accept-language"}>>}

\* one tunnel-shaped request per choice of headers, and one per choice of remote
Envelopes(kind, service, proto) ==
    {Request(kind, "GET", service, NoId, "name", proto, "none", l[1], l[2], i,
             IF kind = "upgrade" THEN "ok" ELSE "absent") :
        l \in HeaderLists, i \in Inbounds}
    \cup {Request(kind, "GET", service, NoId, r[1], r[2], "none", {}, {}, {"host"},
                  IF kind = "upgrade" THEN "ok" ELSE "absent") : r \in Remotes}

MissingChoices(service) ==
    CASE Version(service) = 3 -> {"x-bare-url", "x-bare-headers"}
      [] OTHER -> {"x-bare-host", "x-bare-headers", "x-bare-forward-headers"}

RichRequests ==
    {Request("http", "OPTIONS", s, NoId, "name", "http:", "none", {}, {}, {"host"}, "absent") :
        s \in Services}
    \cup {Request("http", "GET", s, NoId, "name", "http:", "none", {}, {}, {"host"}, "absent") :
             s \in {"/", "/v4/"}}
    \cup UNION {Envelopes("http", s, "http:") : s \in {"/v1/", "/v2/", "/v3/"}}
    \cup UNION {{Request("http", "GET", s, NoId, "name", "http:", m, {}, {}, {"host"}, "absent") :
                    m \in MissingChoices(s)} : s \in {"/v1/", "/v2/", "/v3/", "/v2/ws-new-meta"}}
    \cup {Request("http", "GET", "/v2/ws-new-meta", NoId, r[1], r[2], "none", {}, {}, {"host"},
                  "absent") : r \in MetaRemotes}
    \cup {Request("http", "GET", "/v2/ws-new-meta", NoId, "name", "ws:", "none", l[1], l[2],
                  InboundAll, "absent") : l \in MetaLists}
    \cup {Plain("http", "/v1/ws-new-meta", NoId)}
    \cup {Plain("http", s, i) : s \in {"/v1/ws-meta", "/v2/ws-meta"}, i \in Ids \cup {NoId}}
    \cup UNION {Envelopes("upgrade", s, "ws:") : s \in {"/v1/", "/v3/"}}
    \cup {Request("upgrade", "GET", s, NoId, "name", "ws:", "none", {}, {}, {"host"}, w) :
             s \in {"/v1/", "/v3/"}, w \in {"absent", "other"}}
    \cup {Request("upgrade", "GET", "/v2/", i, "name", "ws:", "none", {}, {}, n, "ok") :
             i \in Ids \cup {NoId}, n \in Inbounds}
    \cup {Plain("upgrade", s, NoId) : s \in {"/v4/", "/v2/ws-meta"}}

(***************************************************************************)
(* URLs.  A URL is a sequence of pieces; request.url is undefined for a    *)
(* message that has no request line.  The piece after the mount prefix     *)
(* names the sub-path (its leading slash is the last one of the prefix).   *)
(***************************************************************************)
directory == <<"/", "bare", "/">>

UndefinedUrl == [defined |-> FALSE, chars |-> <<>>]

DefinedUrl(chars) == [defined |-> TRUE, chars |-> chars]

\* String.prototype.startsWith
startsWith(str, prefix) ==
    Len(str) >= Len(prefix) /\ SubSeq(str, 1, Len(prefix)) = prefix

\* req.url of a request for a sub-path of the server
Url(r) == DefinedUrl(directory \o <<r.service>>)

\* the URLs of the requests the model sends besides those for the sub-paths
OtherUrls ==
    {UndefinedUrl, DefinedUrl(<<"/">>), DefinedUrl(<<"/", "bare">>),
     DefinedUrl(<<"/", "other", "/", "/v1/ws-meta">>),
     DefinedUrl(directory \o <<"/v1/ws-meta">>)}

(***************************************************************************)
(* Clients.  The rate limiter keys its points by getClientIP, which reads  *)
(* x-forwarded-for (a list of addresses), x-real-ip and the socket's       *)
(* remote address; an absent header or address is the empty value.         *)
(***************************************************************************)
Client(forwarded, realIP, remoteAddress) ==
    [forwarded |-> forwarded, realIP |-> realIP, remoteAddress |-> remoteAddress]

\* a client that connects directly from address "a"
DirectClient == Client(<<>>, "", "a")

Clients ==
    {DirectClient, Client(<<>>, "", "b"), Client(<<>>, "", ""),
     Client(<<"b", "a">>, "a", "a"), Client(<<>>, "b", "a")}

ClientIPs == {"a", "b", "unknown"}

\* Server.getClientIP
getClientIP(client) ==
    IF client.forwarded # <<>> THEN Head(client.forwarded)
    ELSE IF client.realIP # "" THEN client.realIP
    ELSE IF client.remoteAddress # "" THEN client.remoteAddress
    ELSE "unknown"

\* the keepAlive of checkRateLimit, from the Connection header (lower-cased,
\* "" when absent) and the HTTP version of the request
isKeepAlive(connection, httpVersion) ==
    connection = "keep-alive" \/ (httpVersion = "1.1" /\ connection # "close")

(***************************************************************************)
(* State.                                                                  *)
(***************************************************************************)
VARIABLES
    options,    \* the server's configuration, fixed at construction
    routing,    \* Server.routes, Server.socketRoutes, Server.versions
    agents,     \* the HTTP and HTTPS connection pools: open or destroyed
    database,   \* the meta store: id -> record
    now,        \* Date.now()
    closed,     \* Server.closed
    consumed,   \* the rate limiter's consumed points of each client IP
    idsUsed,    \* ids randomHex has drawn so far
    started,    \* exchanges started so far
    swept,      \* the last step was a run of the reaper (cleanupDatabase)
    calc,       \* a call of one of the pure functions: its argument and result
    ex          \* the exchanges in flight: slot -> exchange

vars == <<options, routing, agents, database, now, closed, consumed, idsUsed, started, swept, calc, ex>>

\* no call of a pure function is under way
NoCalc == [op |-> "none", stage |-> 0, arg |-> <<>>, mid |-> <<>>, out |-> <<>>]

\* a call of the functions op names, on arg
Call(op, arg) == [op |-> op, stage |-> 0, arg |-> arg, mid |-> <<>>, out |-> <<>>]

\* a meta record; v = 0 stands for no record under the id
Meta(v, expires, response, send, forward, host, proto) ==
    [v |-> v, expires |-> expires, response |-> response, send |-> send,
     forward |-> forward, host |-> host, proto |-> proto]

NoMeta == Meta(0, 0, FALSE, NoHeaders, {}, "name", "http:")

IdleSlot ==
    [pc |-> "idle", req |-> NoRequest, keepAlive |-> FALSE, send |-> NoHeaders,
     forward |-> {}, host |-> "name", proto |-> "http:", meta |-> NoMeta,
     filterCalled |-> FALSE, filterThrew |-> FALSE, connected |-> FALSE, thrown |-> NoError,
     resp |-> NoResponse, socket |-> "none", handshake |-> FALSE, stored |-> FALSE,
     url |-> UndefinedUrl, client |-> DirectClient, upstream |-> NoUpstream,
     remote |-> "none", listening |-> FALSE, got |-> <<>>, missed |-> 0,
     complete |-> TRUE, inbound |-> "open", aborted |-> "no"]

\* what the caller passes to createBareServer: whether it supplies its own
\* database, filterRemote, connectionLimiter, httpAgent and httpsAgent, and
\* the values of blockLocal and legacySupport
ServerInits ==
    [database : BOOLEAN, filterRemote : BOOLEAN, blockLocal : BOOLEAN,
     connectionLimiter : BOOLEAN, httpAgent : BOOLEAN, httpsAgent : BOOLEAN,
     legacySupport : BOOLEAN]

\* the routing tables and the versions list of a new Server
NoRoutes == [routes |-> {}, socketRoutes |-> {}, versions |-> <<>>]

\* registerV1(server), registerV2(server), registerV3(server): the keys set
\* in routes and in socketRoutes, and the version pushed
registerV1 ==
    [routes |-> {"/v1/", "/v1/ws-new-meta", "/v1/ws-meta"}, socketRoutes |-> {"/v1/"},
     versions |-> <<"v1">>]

registerV2 ==
    [routes |-> {"/v2/", "/v2/ws-new-meta", "/v2/ws-meta"}, socketRoutes |-> {"/v2/"},
     versions |-> <<"v2">>]

registerV3 == [routes |-> {"/v3/"}, socketRoutes |-> {"/v3/"}, versions |-> <<"v3">>]

register(server, version) ==
    [routes |-> server.routes \cup version.routes,
     socketRoutes |-> server.socketRoutes \cup version.socketRoutes,
     versions |-> server.versions \o version.versions]

\* a createBareServer that registers v1 and v2 whatever legacySupport is
registeredAlways(init) ==
    register(register(register(NoRoutes, registerV1), registerV2), registerV3)

\* if (init.legacySupport) { registerV1(server); registerV2(server) }
\* registerV3(server)
registered(init) ==
    register(IF init.legacySupport
             THEN register(register(NoRoutes, registerV1), registerV2)
             ELSE NoRoutes,
             registerV3)

\* the pools: options.httpAgent serves http: and ws:, options.httpsAgent
\* https: and wss:
Agents == {"http:", "https:"}

\* the callbacks createBareServer pushes on cleanup: one for each pool and for
\* the interval it created itself
cleanup(init) ==
    (IF init.httpAgent THEN {} ELSE {"http:"})
        \cup (IF init.httpsAgent THEN {} ELSE {"https:"})
        \cup (IF init.database THEN {} ELSE {"interval"})

\* a createBareServer that sets no interval for the reaper
createBareServerNoInterval(init) ==
    [filter |-> IF init.filterRemote THEN "custom"
                ELSE IF init.blockLocal THEN "default" ELSE "none",
     ownDatabase |-> ~init.database,
     reaper |-> FALSE,
     limiter |-> init.connectionLimiter,
     cleanup |-> cleanup(init),
     legacySupport |-> init.legacySupport]

\* the options createBareServer builds: the default filter is installed only
\* under blockLocal and only when the caller gave none; the reaper interval is
\* set only for the database the server creates itself
createBareServer(init) ==
    [filter |-> IF init.filterRemote THEN "custom"
                ELSE IF init.blockLocal THEN "default" ELSE "none",
     ownDatabase |-> ~init.database,
     reaper |-> ~init.database,
     limiter |-> init.connectionLimiter,
     cleanup |-> cleanup(init),
     legacySupport |-> init.legacySupport]

\* the state after createBareServer(directory, init), with one of the calls
\* of a pure function about to be made
ConstructedCalling(inits, calls) ==
    /\ \E i \in inits : options = createBareServer(i) /\ routing = registered(i)
    /\ agents = [a \in Agents |-> "open"]
    /\ database = [i \in Ids |-> NoMeta]
    /\ now = 0
    /\ closed = FALSE
    /\ consumed = [i \in ClientIPs |-> 0]
    /\ idsUsed = 0
    /\ started = 0
    /\ swept = FALSE
    /\ calc \in calls
    /\ ex = [e \in Slots |-> IdleSlot]

\* the state after createBareServer(directory, init)
Constructed(inits) == ConstructedCalling(inits, {NoCalc})

Init == Constructed(ServerInits)

\* the servers that create their pools themselves and support v1 and v2
OwnAgents == {i \in ServerInits : ~i.httpAgent /\ ~i.httpsAgent /\ i.legacySupport}

\* the servers with the default filter and no rate limiter
StoreInits == {i \in OwnAgents : ~i.filterRemote /\ i.blockLocal /\ ~i.connectionLimiter}

InitStore == Constructed(StoreInits)

\* the server with the rate limiter, the default filter and its own database
LimiterInits ==
    {i \in OwnAgents : i.connectionLimiter /\ ~i.database /\ ~i.filterRemote /\ i.blockLocal}

InitLimiter == Constructed(LimiterInits)

\* the servers that create their database themselves
EnvelopeInits == {i \in OwnAgents : ~i.database}

InitEnvelope == Constructed(EnvelopeInits)

(***************************************************************************)
(* Server core: responses, the error funnel, the rate check.               *)
(***************************************************************************)
Min(a, b) == IF a < b THEN a ELSE b

Response(status, code, id, body, bare) ==
    [status |-> status, code |-> code, id |-> id, cors |-> FALSE, body |-> body,
     bare |-> bare, rate |-> {}, headers |-> NoBareHeaders, versions |-> <<>>]

\* json(status, body)
json(status, code, id) == Response(status, code, id, TRUE, FALSE)

\* the catch block of routeRequest
catchResponse(error) ==
    IF error.kind = "HttpError" THEN json(error.status, "UNKNOWN", error.id)
    ELSE IF error.kind \in {"BareError", "Error"} THEN json(500, "UNKNOWN", "Error")
    ELSE json(500, "UNKNOWN", "Exception")

\* response.headers.set('access-control-...') and res.writeHead
writeResponse(s, response) ==
    [s EXCEPT !.pc = "done", !.resp = [response EXCEPT !.cors = TRUE]]

\* a handler of routeRequest throws: catch, then write
throwHttp(s, error) ==
    [writeResponse(s, catchResponse(error)) EXCEPT !.thrown = error]

\* a catch that leaves the client's socket as it is
leaveSocket(s, error) == [s EXCEPT !.pc = "done", !.thrown = error]

\* a socket handler fails or gives up: socket.end() (v3: client.close())
endSocket(s, error) ==
    [s EXCEPT !.pc = "done", !.thrown = error, !.socket = "ended"]

fail(s, error) ==
    IF s.req.kind = "http" THEN throwHttp(s, error) ELSE endSocket(s, error)

\* a checkRateLimit that consumes a point for every request
checkRateLimitAlwaysConsume(limiter, keepAlive, points) ==
    IF ~limiter THEN <<TRUE, points>>
    ELSE <<points + 1 <= LimiterPoints, points + 1>>

\* checkRateLimit on the points of the client's IP: <<allowed, consumed points
\* afterwards>>.  consume(ip) adds a point and rejects when more than the
\* limit are consumed; get(ip) is null when the IP has no record
checkRateLimit(limiter, keepAlive, points) ==
    IF ~limiter THEN <<TRUE, points>>
    ELSE IF keepAlive
    THEN <<points + 1 <= LimiterPoints, points + 1>>
    ELSE <<~(points > 0 /\ LimiterPoints - points <= 0), points>>

\* the 429 answer of routeRequest (res.writeHead, no CORS headers) and of
\* routeUpgrade (socket.write, socket.end)
rateReject(s) ==
    LET answer == [json(429, "CONNECTION_LIMIT_EXCEEDED", "error.TooManyConnections")
                      EXCEPT !.rate = RateLimitHeaders]
    IN  IF s.req.kind = "http"
        THEN [s EXCEPT !.pc = "done", !.resp = answer]
        ELSE [s EXCEPT !.pc = "done", !.socket = "ended", !.resp = answer]

(***************************************************************************)
(* The handlers, up to their first suspension point.                       *)
(***************************************************************************)
\* tunnelRequest of V1.ts, V2.ts, V3.ts, up to bareFetch's await
tunnelRequest(s) ==
    LET parsed == readHeaders(s.req)
    IN  IF parsed.err # NoError THEN throwHttp(s, parsed.err)
        ELSE [s EXCEPT !.pc = "filter",
                       !.host = s.req.host, !.proto = s.req.proto,
                       !.send = IF Version(s.req.service) = 1 THEN parsed.send
                                ELSE loadForwardedHeaders(parsed.forward, parsed.send,
                                                          s.req.inbound)]

\* wsMeta (V1.ts) and getMeta (V2.ts), up to database.get
getMeta(s) ==
    IF s.req.id = NoId THEN throwHttp(s, MissingHeader("x-bare-id"))
    ELSE [s EXCEPT !.pc = "metaGet"]

\* wsNewMeta (V1.ts) and newMeta (V2.ts), up to database.set
newMeta(s) ==
    IF Version(s.req.service) = 1
    THEN [s EXCEPT !.pc = "metaSet", !.meta = Meta(1, 0, FALSE, NoHeaders, {}, "name", "http:")]
    ELSE LET parsed == readHeaders(s.req)
         IN  IF parsed.err # NoError THEN throwHttp(s, parsed.err)
             ELSE [s EXCEPT !.pc = "metaSet",
                            !.meta = Meta(2, 0, FALSE, parsed.send, parsed.forward,
                                          s.req.host, s.req.proto)]

\* get instanceInfo: the manifest, with this.versions
instanceInfo == [json(200, "", "") EXCEPT !.versions = routing.versions]

\* a routeRequest without the OPTIONS short-circuit
routeRequestNoPreflight(s) ==
    IF s.req.service = "/" THEN writeResponse(s, instanceInfo)
    ELSE IF s.req.service \notin routing.routes THEN throwHttp(s, HttpNotFound)
    ELSE IF IsTunnel(s.req.service) THEN tunnelRequest(s)
    ELSE IF IsNewMeta(s.req.service) THEN newMeta(s)
    ELSE IF IsGetMeta(s.req.service) THEN getMeta(s)
    ELSE throwHttp(s, HttpNotFound)

\* routeRequest after the rate check
routeRequest(s) ==
    IF s.req.method = "OPTIONS" THEN writeResponse(s, Response(200, "", "", FALSE, FALSE))
    ELSE IF s.req.service = "/" THEN writeResponse(s, instanceInfo)
    ELSE IF s.req.service \notin routing.routes THEN throwHttp(s, HttpNotFound)
    ELSE IF IsTunnel(s.req.service) THEN tunnelRequest(s)
    ELSE IF IsNewMeta(s.req.service) THEN newMeta(s)
    ELSE IF IsGetMeta(s.req.service) THEN getMeta(s)
    ELSE throwHttp(s, HttpNotFound)

\* tunnelSocket of V1.ts, up to bareUpgradeFetch's await
tunnelSocketV1(s) ==
    IF s.req.wsproto # "ok" THEN endSocket(s, NoError)
    ELSE [s EXCEPT !.pc = "filter", !.host = s.req.host, !.proto = s.req.proto,
                   !.send = loadForwardedHeaders(s.req.fwd, FromClient(s.req.bare),
                                                 s.req.inbound)]

\* tunnelSocket of V2.ts, up to database.get
tunnelSocketV2(s) ==
    IF s.req.id = NoId THEN endSocket(s, NoError)
    ELSE [s EXCEPT !.pc = "relayLoad"]

\* tunnelSocket of V3.ts: wss.handleUpgrade answers 101, then readSocket waits
tunnelSocketV3(s) == [s EXCEPT !.pc = "awaitConnect", !.handshake = TRUE]

\* routeUpgrade after the rate check
routeUpgrade(s) ==
    IF s.req.service \notin routing.socketRoutes THEN endSocket(s, NoError)
    ELSE IF s.req.service = "/v1/" THEN tunnelSocketV1(s)
    ELSE IF s.req.service = "/v2/" THEN tunnelSocketV2(s)
    ELSE IF s.req.service = "/v3/" THEN tunnelSocketV3(s)
    ELSE endSocket(s, NoError)

(***************************************************************************)
(* Outbound fetch.                                                         *)
(***************************************************************************)
\* whether options.filterRemote(remote) throws: the outcomes it can have
filterRemote(filter, host) ==
    CASE filter = "none" -> {FALSE}
      [] filter = "default" -> {host = "ip_local"}
      [] OTHER -> BOOLEAN

\* the protocols bareFetch, and bareUpgradeFetch / webSocketFetch, accept
supportedProtocol(kind, proto) ==
    IF kind = "http" THEN proto \in {"http:", "https:"} ELSE proto \in {"ws:", "wss:"}

\* a fetch that does not wait for the filter's verdict
outgoingUnfiltered(s, filter, throws) ==
    LET called == [s EXCEPT !.filterCalled = (filter # "none"), !.filterThrew = throws]
    IN  IF ~supportedProtocol(s.req.kind, s.proto)
        THEN fail(called, PlainError("RangeError"))
        ELSE [called EXCEPT !.pc = "fetch", !.connected = TRUE]

\* bareFetch / bareUpgradeFetch / webSocketFetch from the filter's await to
\* the creation of the outgoing request
outgoing(s, filter, throws) ==
    LET called == [s EXCEPT !.filterCalled = (filter # "none"), !.filterThrew = throws]
    IN  IF throws THEN fail(called, PlainError("RangeError"))
        ELSE IF ~supportedProtocol(s.req.kind, s.proto)
        THEN fail(called, PlainError("RangeError"))
        ELSE IF s.aborted # "no" THEN fail(called, PlainError("AbortError"))
        ELSE [called EXCEPT !.pc = "fetch", !.connected = TRUE]

\* abort.abort(): the signal aborts the outgoing request, whose error rejects
\* bareFetch; before the request exists the signal is only set
abort(s, trigger) ==
    LET fired == [s EXCEPT !.aborted = IF @ = "no" THEN trigger ELSE @]
    IN  IF s.pc = "fetch" THEN fail(fired, PlainError("AbortError")) ELSE fired

\* a close listener of the request that does not look at complete
requestClosedUnchecked(s) == abort(s, "inbound")

\* request.native.on('close', () => { if (!request.native.complete) abort.abort() })
requestClosed(s) == IF ~s.complete THEN abort(s, "inbound") ELSE s

\* res.on('close', () => { abort.abort() })
responseClosed(s) == abort(s, "response")

\* what the remote can answer
Outcomes == {"response", "upgrade", "refused", "error"}

\* splitHeaders: an x-bare-headers value longer than MAX_HEADER_VALUE is cut
\* into parts of that length, each written with a leading semicolon
splitHeaders(headers) ==
    IF headers.whole > 0 /\ headers.whole > MAX_HEADER_VALUE
    THEN [headers EXCEPT
             !.whole = 0,
             !.parts = [i \in 1..((headers.whole + MAX_HEADER_VALUE - 1) \div MAX_HEADER_VALUE) |->
                           1 + Min(MAX_HEADER_VALUE,
                                   headers.whole - (i - 1) * MAX_HEADER_VALUE)]]
    ELSE headers

\* the status tunnelRequest answers with: 200 in V1.ts, the remote's status
\* when readHeaders put it in passStatus in V2.ts and V3.ts
envelopeStatus(req, upstream) ==
    IF Version(req.service) = 1 THEN 200
    ELSE IF upstream.status \in passStatus(req) THEN upstream.status ELSE 200

\* an envelope that describes the remote's response whatever the status
envelopeHeadersAlways(req, status, upstream) ==
    IF Version(req.service) = 1 THEN BareHeaders(upstream.status, upstream.length)
    ELSE splitHeaders(BareHeaders(upstream.status, upstream.length))

\* the x-bare-status, x-bare-status-text and x-bare-headers tunnelRequest
\* sets; V1.ts sets them always and does not split
envelopeHeaders(req, status, upstream) ==
    IF Version(req.service) = 1 THEN BareHeaders(upstream.status, upstream.length)
    ELSE IF status # cacheNotModified
    THEN splitHeaders(BareHeaders(upstream.status, upstream.length))
    ELSE splitHeaders(NoBareHeaders)

\* whether tunnelRequest hands the remote's stream to the Response as body
envelopeBody(req, status) ==
    IF Version(req.service) = 1 THEN TRUE ELSE status \notin nullBodyStatus

\* tunnelRequest after bareFetch: new Response(body, {status, headers}), which
\* throws a RangeError for a status outside 200..599
tunnelResponse(s, upstream) ==
    LET status == envelopeStatus(s.req, upstream)
        headers == envelopeHeaders(s.req, status, upstream)
    IN  IF status \notin 200..599 THEN throwHttp(s, PlainError("RangeError"))
        ELSE writeResponse(s, [Response(status, "", "", envelopeBody(s.req, status),
                                        headers # NoBareHeaders)
                                  EXCEPT !.headers = headers])

\* the promise of bareFetch settles, and tunnelRequest builds the envelope
fetched(s, outcome, upstream) ==
    CASE outcome = "response" -> tunnelResponse([s EXCEPT !.upstream = upstream], upstream)
      [] outcome = "upgrade" -> throwHttp(s, ThrownValue)
      [] outcome = "refused" ->
            throwHttp(s, BareError(500, "CONNECTION_REFUSED", "response"))
      [] OTHER -> throwHttp(s, PlainError("Error"))

\* the client's side of the relay is gone: closed by the client, or ended
ClientGone(s) == s.socket \in {"closed", "ended"}

\* a relay both sides of which are gone is over
relaying(s) ==
    [s EXCEPT !.pc = IF ClientGone(s) /\ s.remote = "closed" THEN "done" ELSE "relaying",
              !.socket = IF s.socket = "none" THEN "open" ELSE @]

\* socket.write(101 ...), then pipe both ways
writeHandshake(s) == relaying([s EXCEPT !.handshake = TRUE])

\* remoteSocket.on('close', ...), socket.on('close', ...) and the error listeners
listen(s) == [s EXCEPT !.listening = TRUE]

\* a V2.ts relay that writes the 101 handshake before it stores the response
upgradedHandshakeFirst(s, outcome) ==
    IF outcome # "upgrade"
    THEN endSocket(s, IF outcome = "refused"
                      THEN BareError(500, "CONNECTION_REFUSED", "response")
                      ELSE PlainError("Error"))
    ELSE IF s.req.service = "/v1/"
    THEN IF s.req.id # NoId THEN [listen(s) EXCEPT !.pc = "relayGet", !.remote = "open"]
         ELSE writeHandshake([listen(s) EXCEPT !.remote = "open"])
    ELSE IF s.req.service = "/v2/"
    THEN [listen(s) EXCEPT !.pc = "relaySet", !.remote = "open", !.handshake = TRUE,
                           !.meta = [s.meta EXCEPT !.response = TRUE, !.send = s.send]]
    ELSE [s EXCEPT !.pc = "opened", !.remote = "open"]

\* the promise of bareUpgradeFetch / webSocketFetch settles; V1.ts and V2.ts go
\* on to their listeners in the same turn
upgraded(s, outcome) ==
    IF outcome # "upgrade"
    THEN endSocket(s, IF outcome = "refused"
                      THEN BareError(500, "CONNECTION_REFUSED", "response")
                      ELSE PlainError("Error"))
    ELSE IF s.req.service = "/v1/"
    THEN IF s.req.id # NoId THEN [listen(s) EXCEPT !.pc = "relayGet", !.remote = "open"]
         ELSE writeHandshake([listen(s) EXCEPT !.remote = "open"])
    ELSE IF s.req.service = "/v2/"
    THEN [listen(s) EXCEPT !.pc = "relaySet", !.remote = "open",
                           !.meta = [s.meta EXCEPT !.response = TRUE, !.send = s.send]]
    ELSE [s EXCEPT !.pc = "opened", !.remote = "open"]

\* V3.ts tunnelSocket resumes after webSocketFetch: client.send(open message)
sendOpen(s) ==
    [s EXCEPT !.pc = "opening",
              !.got = IF ClientGone(s) THEN @ ELSE Append(@, "open")]

\* the callback of client.send: the message and close listeners of the relay
openSent(s) == relaying(listen(s))

\* a relay that passes a message on whether or not it listens yet
relayUnheard(s) ==
    IF ~ClientGone(s) THEN [s EXCEPT !.got = Append(@, "message")]
    ELSE [s EXCEPT !.missed = @ + 1]

\* the remote's message event: client.send(event.data) if the listener is there
relay(s) ==
    IF s.listening /\ ~ClientGone(s) THEN [s EXCEPT !.got = Append(@, "message")]
    ELSE [s EXCEPT !.missed = @ + 1]

\* the client's close event: the listener, if there, closes the remote
clientClosed(s) ==
    LET t == [s EXCEPT !.socket = "closed",
                       !.remote = IF s.listening THEN "closed" ELSE @]
    IN  [t EXCEPT !.pc = IF s.pc = "relaying" /\ t.remote = "closed" THEN "done" ELSE @]

\* the remote's close event: the listener, if there, ends the client's socket
remoteClosed(s) ==
    LET t == [s EXCEPT !.remote = "closed",
                       !.socket = IF s.listening /\ ~ClientGone(s) THEN "ended" ELSE @]
    IN  [t EXCEPT !.pc = IF s.pc = "relaying" /\ ClientGone(t) THEN "done" ELSE @]

(***************************************************************************)
(* Actions.                                                                *)
(***************************************************************************)
\* a shouldRoute that does not look at the closed flag
shouldRouteWhenClosed(isClosed, url) ==
    url.defined /\ startsWith(url.chars, directory)

\* Server.shouldRoute
shouldRoute(isClosed, url) ==
    ~isClosed /\ url.defined /\ startsWith(url.chars, directory)

Slot(e, s) == ex' = [ex EXCEPT ![e] = s] /\ swept' = FALSE /\ calc' = calc

\* a server that routes without looking at the rate check's verdict
routedUnchecked(s, allowed) ==
    IF s.req.kind = "http" THEN routeRequest(s) ELSE routeUpgrade(s)

\* the rate check of routeRequest / routeUpgrade (RateLimiterMemory settles in
\* the same turn of the event loop), then the handler up to its first
\* suspension point
routed(s, allowed) ==
    IF ~allowed THEN rateReject(s)
    ELSE IF s.req.kind = "http" THEN routeRequest(s)
    ELSE routeUpgrade(s)

\* the listener hands a request to the server (shouldRoute holds), which runs
\* routeRequest / routeUpgrade on it; randomHex draws the id of a new record
Accept(e, r, keepAlive, client) ==
    /\ shouldRoute(closed, Url(r))
    /\ started < MaxReq
    /\ ex[e].pc = "idle"
    /\ \A o \in Slots : o < e => ex[o].pc # "idle"
    /\ LET fresh == IsNewMeta(r.service) /\ r.kind = "http" /\ r.method # "OPTIONS"
           ip == getClientIP(client)
           rate == checkRateLimit(options.limiter, keepAlive, consumed[ip])
       IN  /\ fresh => idsUsed < MaxIds
           /\ idsUsed' = IF fresh THEN idsUsed + 1 ELSE idsUsed
           /\ consumed' = [consumed EXCEPT ![ip] = rate[2]]
           /\ Slot(e, routed([IdleSlot EXCEPT
                                 !.keepAlive = keepAlive,
                                 !.url = Url(r),
                                 !.client = client,
                                 !.complete = ~r.body,
                                 !.req = IF fresh THEN [r EXCEPT !.id = idsUsed + 1] ELSE r],
                             rate[1]))
    /\ started' = started + 1
    /\ UNCHANGED <<options, routing, agents, database, now, closed>>

KeepAlives == IF options.limiter THEN BOOLEAN ELSE {FALSE}

Arrive(e) == \E r \in PlainRequests : \E k \in KeepAlives : Accept(e, r, k, DirectClient)

ArriveMeta(e) ==
    /\ \A o \in Slots : ex[o].pc = "idle"
    /\ started < MaxMeta
    /\ \E r \in MetaRequests : \E k \in KeepAlives : Accept(e, r, k, DirectClient)

ArriveAlone(e) ==
    /\ \A o \in Slots : ex[o].pc = "idle"
    /\ started < MaxSeq
    /\ \E r \in RichRequests : \E k \in KeepAlives : Accept(e, r, k, DirectClient)

\* a request for a v2 meta record, and the upgrades of the three versions
SocketRequests ==
    {Plain("http", "/v2/ws-new-meta", NoId), Plain("upgrade", "/v1/", NoId),
     Plain("upgrade", "/v3/", NoId)}
        \cup {Plain("upgrade", "/v2/", i) : i \in Ids}

ArriveSocket(e) ==
    /\ \A o \in Slots : ex[o].pc = "idle"
    /\ started < MaxSeq
    /\ \E r \in SocketRequests : Accept(e, r, FALSE, DirectClient)

\* tunnel requests of every version without a body, and with one that has
\* arrived or not when the handler starts
BodyRequests ==
    {[Plain("http", sv, NoId) EXCEPT !.method = m[1], !.body = m[2]] :
        sv \in {"/v1/", "/v2/", "/v3/"},
        m \in {<<"GET", FALSE>>, <<"POST", FALSE>>, <<"POST", TRUE>>}}

ArriveBody(e) ==
    /\ \A o \in Slots : ex[o].pc = "idle"
    /\ started < MaxSeq
    /\ \E r \in BodyRequests : Accept(e, r, FALSE, DirectClient)

\* a tunnel request and the upgrades of v1 and v3, to remotes of either pool
CloseRequests ==
    {[Plain("http", "/v3/", NoId) EXCEPT !.proto = p] : p \in {"http:", "https:"}}
        \cup {[Plain("upgrade", sv, NoId) EXCEPT !.proto = p] :
                 sv \in {"/v1/", "/v3/"}, p \in {"ws:", "wss:"}}

ArriveClosing(e) ==
    /\ started < MaxSeq
    /\ \E r \in CloseRequests : Accept(e, r, FALSE, DirectClient)

\* the listener gets a request shouldRoute refuses and handles it itself: the
\* server is not called
Pass(e) ==
    /\ \A o \in Slots : ex[o].pc = "idle"
    /\ e = 1
    /\ started < MaxMeta
    /\ \E url \in OtherUrls :
          /\ ~shouldRoute(closed, url)
          /\ Slot(e, [IdleSlot EXCEPT !.pc = "done", !.url = url])
    /\ started' = started + 1
    /\ UNCHANGED <<options, routing, agents, database, now, closed, consumed, idsUsed>>

\* the listener gets a request for the mount prefix itself or a ws-meta
\* request, and shouldRoute accepts it
ArriveUrl(e) ==
    /\ \A o \in Slots : ex[o].pc = "idle"
    /\ started < MaxMeta
    /\ \E r \in MetaRequests \cup {Plain("http", "/", NoId)} : \E k \in KeepAlives :
          Accept(e, r, k, DirectClient)

\* requests the server answers at once
LimitedRequests == {Plain("http", "/", NoId), Plain("upgrade", "/v4/", NoId)}

\* a request of any client, with or without a Connection header, over
\* HTTP/1.0 or HTTP/1.1
ArriveLimited(e) ==
    \E r \in LimitedRequests : \E client \in Clients :
        \E connection \in {"", "keep-alive", "close"} : \E httpVersion \in {"1.0", "1.1"} :
            Accept(e, r, isKeepAlive(connection, httpVersion), client)

\* await options.filterRemote(remote), then the outgoing request is created
Filter(e) ==
    /\ ex[e].pc = "filter"
    /\ \E throws \in filterRemote(options.filter, ex[e].host) :
          Slot(e, outgoing(ex[e], options.filter, throws))
    /\ UNCHANGED <<options, routing, agents, database, now, closed, consumed, idsUsed, started>>

\* the remote answers the outgoing request, a response being 200 with no
\* header
Fetched(e) ==
    /\ ex[e].pc = "fetch"
    /\ \E outcome \in Outcomes :
          Slot(e, IF ex[e].req.kind = "http" THEN fetched(ex[e], outcome, PlainUpstream)
                  ELSE upgraded(ex[e], outcome))
    /\ UNCHANGED <<options, routing, agents, database, now, closed, consumed, idsUsed, started>>

\* the statuses a remote answers with, and the ones a client asks to pass
UpstreamStatus == {200, 204, 205, 304, 404, 999}

PassChoices == {204, 304, 404, 999}

\* the lengths of JSON.stringify of the remote's headers: "{}", and around the
\* multiples of MAX_HEADER_VALUE
HeaderLengths ==
    {2} \cup {k * MAX_HEADER_VALUE + d : k \in 1..MaxParts, d \in {0, 1}}

Upstreams == {Upstream(st, l) : st \in UpstreamStatus, l \in HeaderLengths}

\* tunnel requests of every version, with and without the cache key and
\* x-bare-pass-status
TunnelRequests ==
    {[Plain("http", sv, NoId) EXCEPT !.cache = c, !.pass = p] :
        sv \in {"/v1/", "/v2/", "/v3/"}, c \in BOOLEAN, p \in SUBSET PassChoices}

ArriveTunnel(e) ==
    /\ \A o \in Slots : ex[o].pc = "idle"
    /\ started < MaxSeq
    /\ \E r \in TunnelRequests : Accept(e, r, FALSE, DirectClient)

\* the remote answers the outgoing request of a tunnel request
FetchedAny(e) ==
    /\ ex[e].pc = "fetch"
    /\ ex[e].req.kind = "http"
    /\ \E outcome \in Outcomes : \E upstream \in Upstreams :
          Slot(e, fetched(ex[e], outcome, upstream))
    /\ UNCHANGED <<options, routing, agents, database, now, closed, consumed, idsUsed, started>>

\* database.get, the version and readiness checks, database.delete and the
\* answer of wsMeta (V1.ts) / getMeta (V2.ts); a Map-backed store settles its
\* promises in the same turn of the event loop, a caller-supplied one need not
metaChecked(s, meta) ==
    IF meta.v # Version(s.req.service)
    THEN throwHttp(s, BareError(400, "INVALID_BARE_HEADER", "x-bare-id"))
    ELSE IF Version(s.req.service) = 2 /\ ~meta.response
    THEN throwHttp(s, BareError(400, "INVALID_BARE_HEADER", "x-bare-id"))
    ELSE [s EXCEPT !.pc = "metaDel", !.meta = meta]

metaAnswer(s) ==
    writeResponse(s, Response(200, "", "", Version(s.req.service) = 1, FALSE))

MetaGet(e) ==
    /\ ex[e].pc = "metaGet"
    /\ LET checked == metaChecked(ex[e], database[ex[e].req.id])
       IN  IF checked.pc = "metaDel" /\ options.ownDatabase
           THEN /\ database' = [database EXCEPT ![ex[e].req.id] = NoMeta]
                /\ Slot(e, metaAnswer(checked))
           ELSE /\ database' = database
                /\ Slot(e, checked)
    /\ UNCHANGED <<options, routing, agents, now, closed, consumed, idsUsed, started>>

\* await options.database.delete(id) on a store that answers later
MetaDelete(e) ==
    /\ ex[e].pc = "metaDel"
    /\ database' = [database EXCEPT ![ex[e].req.id] = NoMeta]
    /\ Slot(e, metaAnswer(ex[e]))
    /\ UNCHANGED <<options, routing, agents, now, closed, consumed, idsUsed, started>>

\* database.set(id, {expires: Date.now() + metaExpiration, value}) of
\* wsNewMeta / newMeta, and the answer carrying the id
MetaSet(e) ==
    /\ ex[e].pc = "metaSet"
    /\ database' = [database EXCEPT
                       ![ex[e].req.id] = [ex[e].meta EXCEPT !.expires = now + metaExpiration]]
    /\ Slot(e, writeResponse(ex[e], Response(200, "", "", TRUE, FALSE)))
    /\ UNCHANGED <<options, routing, agents, now, closed, consumed, idsUsed, started>>

\* V2.ts tunnelSocket: database.get(id), the version check, loadForwardedHeaders
relayLoaded(s, meta) ==
    IF meta.v # 2 THEN endSocket(s, NoError)
    ELSE [s EXCEPT !.pc = "filter", !.meta = meta, !.host = meta.host, !.proto = meta.proto,
                   !.send = loadForwardedHeaders(meta.forward, meta.send, s.req.inbound)]

RelayLoad(e) ==
    /\ ex[e].pc = "relayLoad"
    /\ Slot(e, relayLoaded(ex[e], database[ex[e].req.id]))
    /\ UNCHANGED <<options, routing, agents, database, now, closed, consumed, idsUsed, started>>

\* V1.ts tunnelSocket after the remote upgraded: database.get(id); a record of
\* version 1 gets the response and is written back
RelayGet(e) ==
    /\ ex[e].pc = "relayGet"
    /\ LET meta == database[ex[e].req.id]
           mine == [meta EXCEPT !.response = TRUE]
       IN  IF meta.v # 1
           THEN database' = database /\ Slot(e, writeHandshake(ex[e]))
           ELSE IF options.ownDatabase
           THEN /\ database' = [database EXCEPT ![ex[e].req.id] = mine]
                /\ Slot(e, writeHandshake([ex[e] EXCEPT !.meta = mine, !.stored = TRUE]))
           ELSE /\ database' = database
                /\ Slot(e, [ex[e] EXCEPT !.pc = "relaySet", !.meta = mine])
    /\ UNCHANGED <<options, routing, agents, now, closed, consumed, idsUsed, started>>

\* await options.database.set(id, meta) of the relay, then the 101 handshake
RelaySet(e) ==
    /\ ex[e].pc = "relaySet"
    /\ database' = [database EXCEPT ![ex[e].req.id] = ex[e].meta]
    /\ Slot(e, writeHandshake([ex[e] EXCEPT !.stored = TRUE]))
    /\ UNCHANGED <<options, routing, agents, now, closed, consumed, idsUsed, started>>

\* a V3.ts tunnelSocket that goes on whatever the first message is
connectReadUnchecked(s) ==
    [s EXCEPT !.pc = "filter", !.host = s.req.host, !.proto = s.req.proto,
              !.send = loadForwardedHeaders(s.req.fwd, FromClient(s.req.bare),
                                            s.req.inbound)]

\* V3.ts tunnelSocket: readSocket settles (the connect message, another
\* message, or the timeout), then loadForwardedHeaders
connectRead(s) ==
    IF s.req.wsproto # "ok" THEN endSocket(s, PlainError("Error"))
    ELSE [s EXCEPT !.pc = "filter", !.host = s.req.host, !.proto = s.req.proto,
                   !.send = loadForwardedHeaders(s.req.fwd, FromClient(s.req.bare),
                                                 s.req.inbound)]

AwaitConnect(e) ==
    /\ ex[e].pc = "awaitConnect"
    /\ Slot(e, connectRead(ex[e]))
    /\ UNCHANGED <<options, routing, agents, database, now, closed, consumed, idsUsed, started>>

\* the last of the request's body arrives: complete, then the close event of
\* the request
BodyEnds(e) ==
    /\ ex[e].req.kind = "http"
    /\ ex[e].pc \in {"filter", "fetch"}
    /\ ex[e].inbound = "open"
    /\ ~ex[e].complete
    /\ Slot(e, requestClosed([ex[e] EXCEPT !.complete = TRUE]))
    /\ UNCHANGED <<options, routing, agents, database, now, closed, consumed, idsUsed, started>>

\* the client's connection closes while the handler waits: the close events of
\* the request, if it had not had one, and of the response
ConnectionCloses(e) ==
    /\ ex[e].req.kind = "http"
    /\ ex[e].pc \in {"filter", "fetch"}
    /\ ex[e].inbound = "open"
    /\ Slot(e, responseClosed(requestClosed([ex[e] EXCEPT !.inbound = "closed"])))
    /\ UNCHANGED <<options, routing, agents, database, now, closed, consumed, idsUsed, started>>

SendOpen(e) ==
    /\ ex[e].pc = "opened"
    /\ Slot(e, sendOpen(ex[e]))
    /\ UNCHANGED <<options, routing, agents, database, now, closed, consumed, idsUsed, started>>

OpenSent(e) ==
    /\ ex[e].pc = "opening"
    /\ Slot(e, openSent(ex[e]))
    /\ UNCHANGED <<options, routing, agents, database, now, closed, consumed, idsUsed, started>>

\* the messages of the remote that reached the client
Relayed(s) == Cardinality({i \in DOMAIN s.got : s.got[i] = "message"})

\* the remote of a v3 session sends a message
RemoteMessage(e) ==
    /\ ex[e].req.service = "/v3/"
    /\ ex[e].remote = "open"
    /\ ex[e].pc \in {"opened", "opening", "relaying"}
    /\ Relayed(ex[e]) + ex[e].missed < MaxMessages
    /\ Slot(e, relay(ex[e]))
    /\ UNCHANGED <<options, routing, agents, database, now, closed, consumed, idsUsed, started>>

\* the client closes its side of an established relay
ClientCloses(e) ==
    /\ ex[e].remote = "open"
    /\ ~ClientGone(ex[e])
    /\ ex[e].pc \notin {"idle", "done"}
    /\ Slot(e, clientClosed(ex[e]))
    /\ UNCHANGED <<options, routing, agents, database, now, closed, consumed, idsUsed, started>>

\* the remote closes its side of an established relay
RemoteCloses(e) ==
    /\ ex[e].remote = "open"
    /\ ex[e].pc \notin {"idle", "done"}
    /\ Slot(e, remoteClosed(ex[e]))
    /\ UNCHANGED <<options, routing, agents, database, now, closed, consumed, idsUsed, started>>

\* one side of a relay closes, the close listener ends the other
RelayEnd(e) ==
    /\ ex[e].pc = "relaying"
    /\ Slot(e, [ex[e] EXCEPT !.pc = "done", !.socket = "ended"])
    /\ UNCHANGED <<options, routing, agents, database, now, closed, consumed, idsUsed, started>>

\* the exchange is over and forgotten
Release(e) ==
    /\ ex[e].pc = "done"
    /\ Slot(e, IdleSlot)
    /\ UNCHANGED <<options, routing, agents, database, now, closed, consumed, idsUsed, started>>

(***************************************************************************)
(* The environment: time, the reaper's interval, close().                  *)
(***************************************************************************)
\* one millisecond passes
Tick ==
    /\ now % metaExpiration < MaxSkew
    /\ now' = now + 1
    /\ swept' = FALSE
    /\ UNCHANGED <<options, routing, agents, database, closed, consumed, idsUsed, started, calc, ex>>

\* one meta TTL passes
Elapse ==
    /\ now + metaExpiration <= MaxTime
    /\ now' = now + metaExpiration
    /\ swept' = FALSE
    /\ UNCHANGED <<options, routing, agents, database, closed, consumed, idsUsed, started, calc, ex>>

\* a reaper that also deletes the records expiring at the very tick
cleanupDatabaseInclusive(db, t) ==
    [i \in Ids |-> IF db[i].v # 0 /\ db[i].expires <= t THEN NoMeta ELSE db[i]]

\* for await (const [id, {expires}] of adapter) if (expires < Date.now()) database.delete(id)
cleanupDatabase(db, t) ==
    [i \in Ids |-> IF db[i].v # 0 /\ db[i].expires < t THEN NoMeta ELSE db[i]]

\* the interval createBareServer sets for the database it created fires
ReaperTick ==
    /\ options.reaper
    /\ ~closed
    /\ database' = cleanupDatabase(database, now)
    /\ swept' = TRUE
    /\ UNCHANGED <<options, routing, agents, now, closed, consumed, idsUsed, started, calc, ex>>

\* the pool a request to a remote of this protocol goes through
agentOf(proto) == IF proto \in {"https:", "wss:"} THEN "https:" ELSE "http:"

\* a 'close' listener that runs none of the cleanup callbacks
closeNothing(callbacks, pools) == pools

\* server.once('close', () => { for (const cb of cleanup) cb() }): the pools
\* createBareServer created are destroyed
closeListener(callbacks, pools) ==
    [a \in Agents |-> IF a \in callbacks THEN "destroyed" ELSE pools[a]]

\* agent.destroy() destroys the sockets the pool has in use: an outgoing
\* request still waiting for its response fails with ECONNRESET (socket hang
\* up), which outgoingError turns into CONNECTION_RESET; a socket that was
\* upgraded has left the pool
agentDestroyed(s, pools, after) ==
    IF s.pc = "fetch" /\ pools[agentOf(s.proto)] = "open"
                     /\ after[agentOf(s.proto)] = "destroyed"
    THEN fail(s, BareError(500, "CONNECTION_RESET", "response"))
    ELSE s

\* Server.close(): closed is set and 'close' is emitted; the listener of
\* createBareServer runs the cleanup callbacks (the interval is cleared)
Close ==
    /\ ~closed
    /\ closed' = TRUE
    /\ agents' = closeListener(options.cleanup, agents)
    /\ ex' = [e \in Slots |-> agentDestroyed(ex[e], agents, agents')]
    /\ swept' = FALSE
    /\ UNCHANGED <<options, routing, database, now, consumed, idsUsed, started, calc>>

(***************************************************************************)
(* Header values as text.  A value is a sequence of runs [c, n]: n copies  *)
(* of the character c, where c is "x" (any character that is neither a     *)
(* semicolon nor white space), ";" or " ".  A canonical value has no empty *)
(* run and no two neighbouring runs of the same character, so that equal   *)
(* texts are equal values.                                                 *)
(***************************************************************************)
Run(c, n) == [c |-> c, n |-> n]

RECURSIVE Canon(_)
Canon(runs) ==
    IF runs = <<>> THEN <<>>
    ELSE LET rest == Canon(Tail(runs))
         IN  IF Head(runs).n = 0 THEN rest
             ELSE IF rest # <<>> /\ Head(rest).c = Head(runs).c
             THEN <<Run(Head(runs).c, Head(runs).n + Head(rest).n)>> \o Tail(rest)
             ELSE <<Head(runs)>> \o rest

\* value.length
RECURSIVE Length(_)
Length(value) == IF value = <<>> THEN 0 ELSE Head(value).n + Length(Tail(value))

\* value.slice(0, k)
RECURSIVE Take(_, _)
Take(value, k) ==
    IF value = <<>> \/ k <= 0 THEN <<>>
    ELSE IF Head(value).n >= k THEN <<Run(Head(value).c, k)>>
    ELSE <<Head(value)>> \o Take(Tail(value), k - Head(value).n)

\* value.slice(k)
RECURSIVE Drop(_, _)
Drop(value, k) ==
    IF value = <<>> \/ k <= 0 THEN value
    ELSE IF Head(value).n > k THEN <<Run(Head(value).c, Head(value).n - k)>> \o Tail(value)
    ELSE Drop(Tail(value), k - Head(value).n)

\* value.slice(from, to)
slice(value, from, to) == Take(Drop(value, from), to - from)

\* the value a Headers object keeps: leading and trailing white space removed
normalize(value) ==
    LET a == IF value # <<>> /\ Head(value).c = " " THEN Tail(value) ELSE value
    IN  IF a # <<>> /\ a[Len(a)].c = " " THEN SubSeq(a, 1, Len(a) - 1) ELSE a

\* a check that lets every value through
startsWithAnything(value) == TRUE

\* value.startsWith(';')
startsWithSemicolon(value) == value # <<>> /\ Head(value).c = ";"

\* a Headers object as far as x-bare-headers goes: the value of x-bare-headers
\* when has is set, and the values of x-bare-headers-<id> for the ids present
TextHeaders(has, whole, parts) == [has |-> has, whole |-> whole, parts |-> parts]

NoParts == [id \in {} |-> <<>>]

\* splitHeaders on values: value.slice(i, i + MAX_HEADER_VALUE) for
\* i = 0, MAX_HEADER_VALUE, ..., each set as ';' + part
splitText(headers) ==
    IF headers.has /\ Length(headers.whole) > MAX_HEADER_VALUE
    THEN LET count == (Length(headers.whole) + MAX_HEADER_VALUE - 1) \div MAX_HEADER_VALUE
         IN  TextHeaders(FALSE, <<>>,
                 [id \in (DOMAIN headers.parts) \cup (0..(count - 1)) |->
                     IF id < count
                     THEN normalize(Canon(<<Run(";", 1)>> \o
                              slice(headers.whole, id * MAX_HEADER_VALUE,
                                    (id + 1) * MAX_HEADER_VALUE)))
                     ELSE headers.parts[id]])
    ELSE headers

\* where the name x-bare-headers-<id> stands among the names of a Headers
\* object, which iterates in the order of the names as strings: -1, -10,
\* -11, ..., -19, -2, ... (ids below 100)
LexKey(id) ==
    IF id < 10 THEN id * 11 ELSE (id \div 10) * 11 + 1 + (id % 10)

\* the ids in the order of iteration
RECURSIVE Order(_)
Order(ids) ==
    IF ids = {} THEN <<>>
    ELSE LET first == CHOOSE i \in ids : \A j \in ids : LexKey(i) <= LexKey(j)
         IN  <<first>> \o Order(ids \ {first})

\* join.join(''): the elements of the array in the order of their indices, a
\* hole giving nothing
RECURSIVE joinFrom(_, _, _)
joinFrom(join, id, last) ==
    IF id > last THEN <<>>
    ELSE (IF id \in DOMAIN join THEN join[id] ELSE <<>>) \o joinFrom(join, id + 1, last)

Joined(err, headers) == [err |-> err, headers |-> headers]

\* joinHeaders: without x-bare-headers-0 the headers as they are; otherwise
\* every header whose name starts with x-bare-headers must begin with ';' and
\* is stored, without it, at the index parseInt reads from its name
joinHeaders(headers) ==
    IF 0 \notin DOMAIN headers.parts THEN Joined(NoError, headers)
    ELSE LET order == Order(DOMAIN headers.parts)
             bad == {i \in 1..Len(order) : ~startsWithSemicolon(headers.parts[order[i]])}
             join == [id \in DOMAIN headers.parts |-> Drop(headers.parts[id], 1)]
             last == CHOOSE i \in DOMAIN join : \A j \in DOMAIN join : j <= i
         IN  IF headers.has /\ ~startsWithSemicolon(headers.whole)
             THEN Joined(BareError(400, "INVALID_BARE_HEADER", <<"x-bare-headers">>), headers)
             ELSE IF bad # {}
             THEN Joined(BareError(400, "INVALID_BARE_HEADER",
                                   <<"x-bare-headers", order[CHOOSE i \in bad : \A j \in bad : i <= j]>>),
                         headers)
             ELSE Joined(NoError,
                         TextHeaders(TRUE, normalize(Canon(joinFrom(join, 0, last))), NoParts))

(***************************************************************************)
(* encodeProtocol and decodeProtocol.  A string is the sequence of its     *)
(* UTF-16 code units.                                                      *)
(***************************************************************************)
\* "!#$%&'*+-.0123456789ABCDEFGHIJKLMNOPQRSTUVWXYZ^_`abcdefghijklmnopqrstuvwxyz|~"
validChars ==
    {33, 35, 36, 37, 38, 39, 42, 43, 45, 46, 94, 95, 96, 124, 126}
        \cup (48..57) \cup (65..90) \cup (97..122)

\* '%'
reserveChar == 37

\* the digit of d in base 16, as toString(16) writes it
hexDigit(d) == IF d < 10 THEN 48 + d ELSE 97 + (d - 10)

\* code.toString(16): as many digits as the code needs
RECURSIVE toString16(_)
toString16(code) ==
    IF code < 16 THEN <<hexDigit(code)>>
    ELSE Append(toString16(code \div 16), hexDigit(code % 16))

\* str.padStart(2, '0')
padStart2(str) == IF Len(str) < 2 THEN <<48>> \o str ELSE str

\* the value of a character as a digit of base 16, -1 when it is none
digit16(c) ==
    IF c \in 48..57 THEN c - 48
    ELSE IF c \in 97..102 THEN c - 87
    ELSE IF c \in 65..70 THEN c - 55
    ELSE -1

\* a number: NaN, or an integer
NaN == [nan |-> TRUE, value |-> 0]

Number(value) == [nan |-> FALSE, value |-> value]

\* white space that parseInt skips
WhiteSpace == {9, 10, 11, 12, 13, 32}

RECURSIVE trimStart(_)
trimStart(str) ==
    IF str # <<>> /\ str[1] \in WhiteSpace THEN trimStart(Tail(str)) ELSE str

\* how many leading characters of str are digits of the radix
RECURSIVE leadingDigits(_, _)
leadingDigits(str, radix) ==
    IF str = <<>> \/ digit16(str[1]) < 0 \/ digit16(str[1]) >= radix THEN 0
    ELSE 1 + leadingDigits(Tail(str), radix)

\* the number a string of digits writes in the radix
RECURSIVE digitsValue(_, _)
digitsValue(str, radix) ==
    IF str = <<>> THEN 0
    ELSE digitsValue(SubSeq(str, 1, Len(str) - 1), radix) * radix + digit16(str[Len(str)])

\* parseInt(str, radix), radix 0 when none is given: white space, a sign, 0x when
\* the radix allows it, then the longest run of digits; NaN when there is none
parseInt(str, radix) ==
    LET trimmed == trimStart(str)
        negative == trimmed # <<>> /\ trimmed[1] = 45
        unsigned == IF trimmed # <<>> /\ trimmed[1] \in {43, 45}
                    THEN Tail(trimmed) ELSE trimmed
        prefixed == /\ radix \in {0, 16}
                    /\ Len(unsigned) >= 2
                    /\ unsigned[1] = 48
                    /\ unsigned[2] \in {88, 120}
        base == IF radix # 0 THEN radix ELSE IF prefixed THEN 16 ELSE 10
        digits == IF prefixed THEN SubSeq(unsigned, 3, Len(unsigned)) ELSE unsigned
        n == leadingDigits(digits, base)
        value == digitsValue(SubSeq(digits, 1, n), base)
    IN  IF n = 0 THEN NaN
        ELSE IF negative THEN Number(0 - value) ELSE Number(value)

\* String.fromCharCode(code): the code modulo 2^16, NaN as 0
fromCharCode(code) == IF code.nan THEN 0 ELSE code.value % 65536

\* one turn of encodeProtocol's loop
encodeChar(char) ==
    IF char \in validChars /\ char # reserveChar THEN <<char>>
    ELSE <<reserveChar>> \o padStart2(toString16(char))

RECURSIVE encodeProtocol(_)
encodeProtocol(protocol) ==
    IF protocol = <<>> THEN <<>>
    ELSE encodeChar(Head(protocol)) \o encodeProtocol(Tail(protocol))

RECURSIVE decodeFrom(_, _)
decodeFrom(protocol, i) ==
    IF i > Len(protocol) THEN <<>>
    ELSE IF protocol[i] = reserveChar
    THEN <<fromCharCode(parseInt(SubSeq(protocol, i + 1, Min(i + 2, Len(protocol))), 16))>>
            \o decodeFrom(protocol, i + 3)
    ELSE <<protocol[i]>> \o decodeFrom(protocol, i + 1)

decodeProtocol(protocol) == decodeFrom(protocol, 1)

(***************************************************************************)
(* readHeaders on the values of the envelope headers: the names of the     *)
(* headers the request lacks (headers.get gives null), x-bare-port as the  *)
(* string of its code units, the two lists as the names they hold, and     *)
(* whether x-bare-headers is JSON.  The envelope has no x-bare-headers-N   *)
(* fragment, so that joinHeaders leaves it as it is.                       *)
(***************************************************************************)
forbiddenPassHeaders ==
    {"vary", "connection", "transfer-encoding", "access-control-allow-headers",
     "access-control-allow-methods", "access-control-expose-headers",
     "access-control-max-age", "access-control-request-headers",
     "access-control-request-method"}

defaultPassHeaders == {"content-encoding", "content-length", "last-modified"}

validProtocols == {"http:", "https:", "ws:", "wss:"}

Envelope(version, absent, port, protocol, url, isJSON, forward, pass) ==
    [version |-> version, absent |-> absent, port |-> port, protocol |-> protocol,
     url |-> url, json |-> isJSON, forward |-> forward, pass |-> pass]

\* headers.get(name) === null, !headers.has(name)
null(env, name) == name \in env.absent

\* what readHeaders returns, or the error it throws
BareHeaderData(err, port, passHeaders, forwardHeaders) ==
    [err |-> err, port |-> port, passHeaders |-> passHeaders,
     forwardHeaders |-> forwardHeaders]

Thrown(err) == BareHeaderData(err, 0, {}, {})

InvalidHeader(name) == BareError(400, "INVALID_BARE_HEADER", name)

\* new URL(...) takes a port of decimal digits only, of value at most 65535
urlPort(port) ==
    IF leadingDigits(port, 10) = Len(port) /\ digitsValue(port, 10) <= 65535
    THEN Number(digitsValue(port, 10))
    ELSE NaN

\* the strings new URL(...) parses
validURLs == {"http://example.com/"}

\* the loop over host, port, protocol, path: the first error, if any
readRemote(env) ==
    IF null(env, "x-bare-host") THEN MissingHeader("x-bare-host")
    ELSE IF null(env, "x-bare-port") THEN MissingHeader("x-bare-port")
    ELSE IF parseInt(env.port, 0).nan THEN InvalidHeader("x-bare-port")
    ELSE IF null(env, "x-bare-protocol") THEN MissingHeader("x-bare-protocol")
    ELSE IF env.protocol \notin validProtocols THEN InvalidHeader("x-bare-protocol")
    ELSE IF null(env, "x-bare-path") THEN MissingHeader("x-bare-path")
    ELSE NoError

\* x-bare-headers: present and JSON
readBareHeaders(env) ==
    IF null(env, "x-bare-headers") THEN MissingHeader("x-bare-headers")
    ELSE IF ~env.json THEN InvalidHeader("x-bare-headers")
    ELSE NoError

\* remoteToURL(remote): new URL(`${protocol}${host}:${port}${path}`)
remoteToURL(env, passHeaders, forwardHeaders) ==
    IF urlPort(env.port).nan THEN Thrown(PlainError("TypeError"))
    ELSE BareHeaderData(NoError, urlPort(env.port).value, passHeaders, forwardHeaders)

\* the lower-cased names of a list header, none when the header is absent
listed(env, name, list) ==
    IF null(env, name) THEN {} ELSE {toLowerCase(h) : h \in list}

passList(env) == listed(env, "x-bare-pass-headers", env.pass)

forwardList(env) == listed(env, "x-bare-forward-headers", env.forward)

\* the two lists of v2 and v3: pass headers first, then forward headers
readLists(env) ==
    IF passList(env) \cap forbiddenPassHeaders # {}
    THEN BareError(400, "FORBIDDEN_BARE_HEADER", "x-bare-forward-headers")
    ELSE IF forwardList(env) \cap forbiddenForwardHeaders # {}
    THEN BareError(400, "FORBIDDEN_BARE_HEADER", "x-bare-forward-headers")
    ELSE NoError

\* V1.ts readHeaders
readValuesV1(env) ==
    IF readRemote(env) # NoError THEN Thrown(readRemote(env))
    ELSE IF readBareHeaders(env) # NoError THEN Thrown(readBareHeaders(env))
    ELSE IF null(env, "x-bare-forward-headers")
    THEN Thrown(MissingHeader("x-bare-forward-headers"))
    ELSE remoteToURL(env, {}, forwardList(env) \ forbiddenForwardHeadersV1)

\* V2.ts readHeaders
readValuesV2(env) ==
    IF readRemote(env) # NoError THEN Thrown(readRemote(env))
    ELSE IF readBareHeaders(env) # NoError THEN Thrown(readBareHeaders(env))
    ELSE IF readLists(env) # NoError THEN Thrown(readLists(env))
    ELSE remoteToURL(env, defaultPassHeaders \cup passList(env),
                     defaultForwardHeadersV2 \cup forwardList(env))

\* V3.ts readHeaders
readValuesV3(env) ==
    IF null(env, "x-bare-url") THEN Thrown(MissingHeader("x-bare-url"))
    ELSE IF env.url \notin validURLs THEN Thrown(PlainError("TypeError"))
    ELSE IF readBareHeaders(env) # NoError THEN Thrown(readBareHeaders(env))
    ELSE IF readLists(env) # NoError THEN Thrown(readLists(env))
    ELSE BareHeaderData(NoError, 80, defaultPassHeaders \cup passList(env),
                        defaultForwardHeadersV3 \cup forwardList(env))

readValues(env) ==
    CASE env.version = 1 -> readValuesV1(env)
      [] env.version = 2 -> readValuesV2(env)
      [] OTHER -> readValuesV3(env)

(***************************************************************************)
(* Calls of the pure functions.                                            *)
(***************************************************************************)
\* x-bare-headers values: text, possibly white space, text
WholeValues ==
    {Canon(<<Run("x", a), Run(" ", b), Run("x", c)>>) :
        a \in {1, MAX_HEADER_VALUE - 1, MAX_HEADER_VALUE, MAX_HEADER_VALUE + 1},
        b \in {0, 1, 2},
        c \in {1, MAX_HEADER_VALUE, MaxParts * MAX_HEADER_VALUE,
               (ManyParts - 1) * MAX_HEADER_VALUE}}

\* the values of fragments a client sends: with the semicolon, without, empty
PartValues == {<<Run(";", 1), Run("x", 2)>>, <<Run("x", 3)>>, <<>>}

\* the headers a client sends: x-bare-headers or not, and up to three fragments
FragmentHeaders ==
    {TextHeaders(has, IF has THEN <<Run("x", 2)>> ELSE <<>>, parts) :
        has \in BOOLEAN, parts \in UNION {[ids -> PartValues] : ids \in SUBSET (0..2)}}

SplitCalls == {Call("split", TextHeaders(TRUE, v, NoParts)) : v \in WholeValues}

JoinCalls == {Call("join", h) : h \in FragmentHeaders}

\* splitHeaders(headers)
Split ==
    /\ calc.op = "split"
    /\ calc.stage = 0
    /\ calc' = [calc EXCEPT !.stage = 1, !.mid = splitText(calc.arg)]
    /\ UNCHANGED <<options, routing, agents, database, now, closed, consumed, idsUsed, started, swept, ex>>

\* joinHeaders(splitHeaders(headers))
JoinSplit ==
    /\ calc.op = "split"
    /\ calc.stage = 1
    /\ calc' = [calc EXCEPT !.stage = 2, !.out = joinHeaders(calc.mid)]
    /\ UNCHANGED <<options, routing, agents, database, now, closed, consumed, idsUsed, started, swept, ex>>

\* joinHeaders(headers)
Join ==
    /\ calc.op = "join"
    /\ calc.stage = 0
    /\ calc' = [calc EXCEPT !.stage = 1, !.out = joinHeaders(calc.arg)]
    /\ UNCHANGED <<options, routing, agents, database, now, closed, consumed, idsUsed, started, swept, ex>>

\* code units: valid, reserved, invalid below 0x10, invalid, 0xFF and above
CodeUnits == {97, 48, 37, 9, 32, 255, 256, 65535}

RECURSIVE Strings(_)
Strings(n) ==
    IF n = 0 THEN {<<>>}
    ELSE Strings(n - 1) \cup {Append(str, c) : str \in Strings(n - 1), c \in CodeUnits}

\* encoded values a client may send: escapes, among them cut and malformed ones
EncodedUnits == {37, 48, 49, 97, 70, 120, 45}

RECURSIVE EncodedStrings(_)
EncodedStrings(n) ==
    IF n = 0 THEN {<<>>}
    ELSE EncodedStrings(n - 1)
            \cup {Append(str, c) : str \in EncodedStrings(n - 1), c \in EncodedUnits}

ProtocolCalls ==
    {Call("encode", str) : str \in Strings(MaxProtocol)}
        \cup {Call("decode", str) : str \in EncodedStrings(MaxEncoded)}

\* encodeProtocol(protocol)
Encode ==
    /\ calc.op = "encode"
    /\ calc.stage = 0
    /\ calc' = [calc EXCEPT !.stage = 1, !.mid = encodeProtocol(calc.arg)]
    /\ UNCHANGED <<options, routing, agents, database, now, closed, consumed, idsUsed, started, swept, ex>>

\* decodeProtocol(encodeProtocol(protocol))
DecodeEncoded ==
    /\ calc.op = "encode"
    /\ calc.stage = 1
    /\ calc' = [calc EXCEPT !.stage = 2, !.out = decodeProtocol(calc.mid)]
    /\ UNCHANGED <<options, routing, agents, database, now, closed, consumed, idsUsed, started, swept, ex>>

\* decodeProtocol(protocol)
Decode ==
    /\ calc.op = "decode"
    /\ calc.stage = 0
    /\ calc' = [calc EXCEPT !.stage = 1, !.out = decodeProtocol(calc.arg)]
    /\ UNCHANGED <<options, routing, agents, database, now, closed, consumed, idsUsed, started, swept, ex>>

\* x-bare-port values: "80", "0", "-1", "65535", "65536", "80abc", "abc", ""
PortValues ==
    {<<56, 48>>, <<48>>, <<45, 49>>, <<54, 53, 53, 51, 53>>, <<54, 53, 53, 51, 54>>,
     <<56, 48, 97, 98, 99>>, <<97, 98, 99>>, <<>>}

PassLists ==
    {{"ETag"}, {"Vary"}, {"connection"}, {"transfer-encoding"},
     {"Access-Control-Max-Age"}, {"access-control-allow-origin"},
     {"access-control-allow-headers", "etag"}}

ForwardLists == {{}, {"Origin"}, {"host"}, {"accept-language"}, {"Referer", "accept-language"}}

EnvelopeNames ==
    {"x-bare-host", "x-bare-port", "x-bare-protocol", "x-bare-path", "x-bare-url",
     "x-bare-headers", "x-bare-forward-headers", "x-bare-pass-headers"}

\* the envelope every check lets through: port "80", no name in the lists
GoodEnvelope(version) ==
    Envelope(version, {}, <<56, 48>>, "http:", "http://example.com/", TRUE, {}, {})

\* the envelopes that differ from env by one more header
OneFault(env) ==
    {[env EXCEPT !.absent = @ \cup {n}] : n \in EnvelopeNames}
        \cup {[env EXCEPT !.port = v] : v \in PortValues}
        \cup {[env EXCEPT !.protocol = v] : v \in {"wss:", "ftp:"}}
        \cup {[env EXCEPT !.url = "example"], [env EXCEPT !.json = FALSE]}
        \cup {[env EXCEPT !.forward = v] : v \in ForwardLists}
        \cup {[env EXCEPT !.pass = v] : v \in PassLists}

RECURSIVE EnvelopeValues(_)
EnvelopeValues(faults) ==
    IF faults = 0 THEN {GoodEnvelope(version) : version \in {1, 2, 3}}
    ELSE EnvelopeValues(faults - 1)
            \cup UNION {OneFault(env) : env \in EnvelopeValues(faults - 1)}

ReadCalls == {Call("read", env) : env \in EnvelopeValues(MaxFaults)}

\* readHeaders(request)
ReadHeaders ==
    /\ calc.op = "read"
    /\ calc.stage = 0
    /\ calc' = [calc EXCEPT !.stage = 1, !.out = readValues(calc.arg)]
    /\ UNCHANGED <<options, routing, agents, database, now, closed, consumed, idsUsed, started, swept, ex>>

(***************************************************************************)
(* The headers of a tunnel response by name.  A header map gives each name *)
(* it holds the origin of its value: "upstream" for a value copied from    *)
(* the remote's response, "server" for one tunnelRequest computed, or the  *)
(* fixed value routeRequest sets.                                          *)
(***************************************************************************)
\* Headers.set(name, value): the value replaces the one the name had
setHeader(headers, name, value) ==
    [h \in DOMAIN headers \cup {name} |-> IF h = name THEN value ELSE headers[h]]

\* for (const header of passHeaders) if (header in response.headers) set(...)
passed(passHeaders, upstream) == [h \in passHeaders \cap upstream |-> "upstream"]

\* x-bare-status, x-bare-status-text, x-bare-headers unless the status is 304
described(headers, notModified) ==
    IF notModified THEN headers
    ELSE setHeader(setHeader(setHeader(headers, "x-bare-status", "server"),
                             "x-bare-status-text", "server"),
                   "x-bare-headers", "server")

\* splitHeaders by name: a long x-bare-headers is replaced by its fragments
splitNames(headers, long) ==
    IF "x-bare-headers" \in DOMAIN headers /\ long
    THEN [h \in (DOMAIN headers \ {"x-bare-headers"})
                    \cup {"x-bare-headers-0", "x-bare-headers-1"} |->
             IF h \in {"x-bare-headers-0", "x-bare-headers-1"}
             THEN headers["x-bare-headers"] ELSE headers[h]]
    ELSE headers

\* the headers of the Response tunnelRequest returns
tunnelHeaders(arg) ==
    splitNames(described(passed(arg.pass, arg.upstream), arg.notModified), arg.long)

\* the fixed set of routeRequest
fixedHeaders ==
    [h \in {"x-robots-tag", "access-control-allow-headers", "access-control-allow-origin",
            "access-control-allow-methods", "access-control-expose-headers",
            "access-control-max-age"} |->
        CASE h = "x-robots-tag" -> "noindex"
          [] h = "access-control-max-age" -> "7200"
          [] OTHER -> "*"]

\* a routeRequest that adds the fixed headers the response does not have yet
setFixedIfAbsent(headers) ==
    [h \in DOMAIN headers \cup DOMAIN fixedHeaders |->
        IF h \in DOMAIN headers THEN headers[h] ELSE fixedHeaders[h]]

\* response.headers.set(...) of routeRequest, after the handler returned
setFixed(headers) ==
    [h \in DOMAIN headers \cup DOMAIN fixedHeaders |->
        IF h \in DOMAIN fixedHeaders THEN fixedHeaders[h] ELSE headers[h]]

\* the names a client lists in x-bare-pass-headers, lower-cased
PassNames ==
    {"etag", "access-control-allow-origin", "access-control-allow-credentials",
     "x-robots-tag", "x-bare-status", "set-cookie"}

\* the names of the headers of the remote's response
UpstreamNames ==
    {"etag", "content-length", "set-cookie", "access-control-allow-origin",
     "access-control-max-age", "x-robots-tag", "x-bare-status"}

\* the tunnel responses: the passHeaders readHeaders returned (the defaults
\* and up to MaxPass listed names, none of them forbidden), the remote's
\* headers, whether the envelope status is 304, whether x-bare-headers is long
PassCalls ==
    {Call("pass", [pass |-> defaultPassHeaders \cup l, upstream |-> u,
                   notModified |-> n, long |-> g]) :
        l \in {x \in SUBSET PassNames :
                  Cardinality(x) <= MaxPass /\ x \cap forbiddenPassHeaders = {}},
        u \in SUBSET UpstreamNames, n \in BOOLEAN, g \in BOOLEAN}

\* tunnelRequest after bareFetch: the Response it returns
TunnelHeaders ==
    /\ calc.op = "pass"
    /\ calc.stage = 0
    /\ calc' = [calc EXCEPT !.stage = 1, !.mid = tunnelHeaders(calc.arg)]
    /\ UNCHANGED <<options, routing, agents, database, now, closed, consumed, idsUsed, started, swept, ex>>

\* routeRequest after the handler returned: the fixed set, then res.writeHead
WriteHead ==
    /\ calc.op = "pass"
    /\ calc.stage = 1
    /\ calc' = [calc EXCEPT !.stage = 2, !.out = setFixed(calc.mid)]
    /\ UNCHANGED <<options, routing, agents, database, now, closed, consumed, idsUsed, started, swept, ex>>

(***************************************************************************)
(* Specifications.                                                         *)
(*   Spec          concurrent exchanges on the meta store and the relay    *)
(*   SpecReaper    the meta routes, one exchange at a time, with time, the *)
(*                 reaper's interval and close()                           *)
(*   FairSpec      SpecReaper, where time passes and a set interval fires  *)
(*   SpecEnvelope  one exchange at a time, over the envelopes, the remotes *)
(*                 and the filter and rate limiter configurations          *)
(*   SpecListener  the listener's choice between the server and its own    *)
(*                 handling, before and after close()                      *)
(*   SpecLimiter   the rate check over several clients                     *)
(*   SpecTunnel    tunnel requests over the remote's statuses and headers   *)
(*   SpecHeaders   splitHeaders and joinHeaders over header values          *)
(*   SpecProtocol  encodeProtocol and decodeProtocol over strings           *)
(*   SpecRead      readHeaders of the three versions over envelope values   *)
(*   SpecSocket    WebSocket exchanges one at a time, with the messages and *)
(*                 the closes of the client and of the remote               *)
(*   FairSocket    SpecSocket, where the server's own steps are taken       *)
(*   SpecCancel    tunnel requests with a body, and the closes of the       *)
(*                 client's connection                                      *)
(***************************************************************************)
Exchange(e) ==
    \/ Filter(e)
    \/ Fetched(e)
    \/ MetaGet(e)
    \/ MetaDelete(e)
    \/ MetaSet(e)
    \/ RelayLoad(e)
    \/ RelayGet(e)
    \/ RelaySet(e)
    \/ RelayEnd(e)
    \/ Release(e)

Next == \E e \in Slots : Arrive(e) \/ Exchange(e)

Spec == InitStore /\ [][Next]_vars

NextReaper ==
    \/ \E e \in Slots :
          \/ ArriveMeta(e)
          \/ MetaGet(e)
          \/ MetaDelete(e)
          \/ MetaSet(e)
          \/ Release(e)
    \/ Tick
    \/ Elapse
    \/ ReaperTick
    \/ Close

SpecReaper == InitStore /\ [][NextReaper]_vars

FairSpec == SpecReaper /\ WF_vars(Tick) /\ WF_vars(Elapse) /\ WF_vars(ReaperTick)

NextEnvelope ==
    \E e \in Slots :
        \/ ArriveAlone(e)
        \/ Filter(e)
        \/ Fetched(e)
        \/ MetaGet(e)
        \/ MetaSet(e)
        \/ RelayLoad(e)
        \/ RelaySet(e)
        \/ AwaitConnect(e)
        \/ SendOpen(e)
        \/ OpenSent(e)
        \/ RelayEnd(e)
        \/ Release(e)

SpecEnvelope == InitEnvelope /\ [][NextEnvelope]_vars

NextListener ==
    \/ \E e \in Slots :
          \/ ArriveUrl(e)
          \/ Pass(e)
          \/ MetaGet(e)
          \/ MetaDelete(e)
          \/ MetaSet(e)
          \/ Release(e)
    \/ Close

SpecListener == InitStore /\ [][NextListener]_vars

NextLimiter == \E e \in Slots : ArriveLimited(e) \/ Release(e)

SpecLimiter == InitLimiter /\ [][NextLimiter]_vars

NextTunnel ==
    \E e \in Slots :
        \/ ArriveTunnel(e)
        \/ Filter(e)
        \/ FetchedAny(e)
        \/ Release(e)

SpecTunnel == InitStore /\ [][NextTunnel]_vars

InitHeaders == ConstructedCalling(LimiterInits, SplitCalls \cup JoinCalls)

NextHeaders == Split \/ JoinSplit \/ Join

SpecHeaders == InitHeaders /\ [][NextHeaders]_vars

\* the server's own steps of a socket exchange
SocketStep(e) ==
    \/ Filter(e)
    \/ MetaSet(e)
    \/ RelayLoad(e)
    \/ RelaySet(e)
    \/ AwaitConnect(e)
    \/ SendOpen(e)
    \/ OpenSent(e)
    \/ Release(e)

NextSocket ==
    \E e \in Slots :
        \/ ArriveSocket(e)
        \/ Fetched(e)
        \/ RemoteMessage(e)
        \/ ClientCloses(e)
        \/ RemoteCloses(e)
        \/ SocketStep(e)

SpecSocket == InitStore /\ [][NextSocket]_vars

NextCancel ==
    \E e \in Slots :
        \/ ArriveBody(e)
        \/ Filter(e)
        \/ Fetched(e)
        \/ BodyEnds(e)
        \/ ConnectionCloses(e)
        \/ Release(e)

SpecCancel == InitStore /\ [][NextCancel]_vars

\* the servers of every ownership of the pools and of the database
CloseInits ==
    {i \in ServerInits :
        ~i.filterRemote /\ i.blockLocal /\ ~i.connectionLimiter /\ i.legacySupport}

InitClose == Constructed(CloseInits)

NextClose ==
    \/ \E e \in Slots :
          \/ ArriveClosing(e)
          \/ Filter(e)
          \/ Fetched(e)
          \/ AwaitConnect(e)
          \/ SendOpen(e)
          \/ OpenSent(e)
          \/ RemoteCloses(e)
          \/ Release(e)
    \/ ReaperTick
    \/ Close

SpecClose == InitClose /\ [][NextClose]_vars

FairSocket == SpecSocket /\ \A e \in Slots : WF_vars(SocketStep(e))

InitProtocol == ConstructedCalling(LimiterInits, ProtocolCalls)

NextProtocol == Encode \/ DecodeEncoded \/ Decode

SpecProtocol == InitProtocol /\ [][NextProtocol]_vars

InitRead == ConstructedCalling(LimiterInits, ReadCalls)

NextRead == ReadHeaders

SpecRead == InitRead /\ [][NextRead]_vars

\* the servers with and without the legacy versions and the rate limiter
RoutingInits ==
    {i \in ServerInits :
        ~i.httpAgent /\ ~i.httpsAgent /\ ~i.database /\ ~i.filterRemote /\ i.blockLocal}

InitRouting == Constructed(RoutingInits)

SpecRouting == InitRouting /\ [][NextEnvelope]_vars

InitPass == ConstructedCalling(LimiterInits, PassCalls)

NextPass == TunnelHeaders \/ WriteHead

SpecPass == InitPass /\ [][NextPass]_vars

TypeOK ==
    /\ now \in 0..MaxTime
    /\ consumed \in [ClientIPs -> 0..MaxReq]
    /\ idsUsed \in 0..MaxIds
    /\ started \in 0..MaxReq
    /\ \A e \in Slots : ex[e].pc \in
          {"idle", "filter", "fetch", "metaGet", "metaDel", "metaSet", "relayLoad",
           "relayGet", "relaySet", "awaitConnect", "opened", "opening", "relaying",
           "done"}

(***************************************************************************)
(* Properties.                                                             *)
(***************************************************************************)
\* the exchange of slot e ended with a response written by routeRequest
Answered(e) == ex[e].pc = "done" /\ ex[e].req.kind = "http"

\* C1: when a route handler throws a BareError, the response written to the
\* client has the error's status and the error's body (code, id); when it
\* throws anything else, the response has status 500 and code UNKNOWN.
C1_ErrorFunnel ==
    \A e \in Slots :
        Answered(e) /\ ex[e].thrown.kind \in {"BareError", "Error", "value"} =>
            IF ex[e].thrown.kind = "BareError"
            THEN /\ ex[e].resp.status = ex[e].thrown.status
                 /\ ex[e].resp.code = ex[e].thrown.code
                 /\ ex[e].resp.id = ex[e].thrown.id
            ELSE ex[e].resp.status = 500 /\ ex[e].resp.code = "UNKNOWN"

\* slot e holds a ws-meta request that was answered with the record
Consumed(e) ==
    /\ Answered(e)
    /\ IsGetMeta(ex[e].req.service)
    /\ ex[e].req.method # "OPTIONS"
    /\ ex[e].thrown = NoError
    /\ ex[e].resp.status = 200

\* C2: a meta record is consumed at most once: of the ws-meta requests for
\* one id, whatever their interleaving, at most one is answered with the
\* record.
C2_ConsumedAtMostOnce ==
    \A a, b \in Slots :
        Consumed(a) /\ Consumed(b) /\ ex[a].req.id = ex[b].req.id => a = b

\* C3: a meta record is mutated exactly once by the relay: once a v2 upgrade
\* has stored the remote's handshake response under an id, no v2 upgrade
\* presenting that id stores a response under it again.
C3_RelayWritesOnce ==
    [][\A e \in Slots :
          /\ ex[e].req.service = "/v2/"
          /\ ex[e].pc = "relaySet"
          /\ ex'[e].stored
          => ~database[ex[e].req.id].response]_vars

\* C4: a ws-meta request of version v is answered with success only if the
\* record it read under x-bare-id has value.v = v, and the record is then
\* deleted; when the id is not in the store or holds a record of the other
\* version, the answer is the error INVALID_BARE_HEADER and the store is
\* unchanged.
C4_WsMetaByVersion ==
    [][\A e \in Slots :
          /\ IsGetMeta(ex[e].req.service)
          /\ ex[e].pc \in {"metaGet", "metaDel"}
          /\ ex'[e].pc = "done"
          => /\ ex'[e].thrown = NoError =>
                  /\ ex'[e].meta.v = Version(ex[e].req.service)
                  /\ database'[ex[e].req.id] = NoMeta
             /\ ex[e].pc = "metaGet"
                /\ database[ex[e].req.id].v \in {0, 3 - Version(ex[e].req.service)} =>
                  /\ ex'[e].resp.code = "INVALID_BARE_HEADER"
                  /\ database' = database]_vars

\* the same, read at the handler: the error thrown, not the response written
C4_WsMetaThrows ==
    [][\A e \in Slots :
          /\ IsGetMeta(ex[e].req.service)
          /\ ex[e].pc \in {"metaGet", "metaDel"}
          /\ ex'[e].pc = "done"
          => /\ ex'[e].thrown = NoError =>
                  /\ ex'[e].meta.v = Version(ex[e].req.service)
                  /\ database'[ex[e].req.id] = NoMeta
             /\ ex[e].pc = "metaGet"
                /\ database[ex[e].req.id].v \in {0, 3 - Version(ex[e].req.service)} =>
                  /\ ex'[e].thrown.code = "INVALID_BARE_HEADER"
                  /\ database' = database]_vars

\* C5: a record is created with expires = creation time + 30 s, which is
\* later than the creation time; a run of the reaper at time t deletes every
\* record with expires < t and leaves every other record as it was.
C5_ExpiryAndReaper ==
    [][/\ \A e \in Slots :
             /\ IsNewMeta(ex[e].req.service)
             /\ ex[e].pc = "metaSet"
             /\ ex'[e].pc = "done"
             => /\ database'[ex[e].req.id].v = Version(ex[e].req.service)
                /\ database'[ex[e].req.id].expires = now + metaExpiration
                /\ database'[ex[e].req.id].expires > now
       /\ swept' =>
             \A i \in Ids :
                 IF database[i].v # 0 /\ database[i].expires < now
                 THEN database'[i] = NoMeta
                 ELSE database'[i] = database[i]]_vars

\* the reaper has just run, deleted the record of id 1 (created, never asked
\* for by ws-meta) and kept the record of id 2, which expires at this instant
C5_SweptOneKeptOne ==
    /\ swept
    /\ idsUsed = 2
    /\ started = 2
    /\ \A e \in Slots : ex[e].pc = "idle"
    /\ database[1].v = 0
    /\ database[2].v # 0
    /\ database[2].expires = now

\* a record whose expiry lies within the time the model covers
Expiring(i) == database[i].v # 0 /\ database[i].expires < MaxTime

\* C6 as stated: in every configuration, each record not consumed by ws-meta
\* is eventually removed from the store while the server is open.
C6_AlwaysReaped ==
    \A i \in Ids : Expiring(i) ~> (database[i].v = 0 \/ closed)

\* C6, amended: when the server created its database itself, each record not
\* consumed by ws-meta is eventually removed from the store while the server
\* is open.
C6_OwnStoreReaped ==
    \A i \in Ids : (options.ownDatabase /\ Expiring(i)) ~> (database[i].v = 0 \/ closed)

\* the reaper of an open server removed the only record ever created, which
\* no ws-meta request had asked for
C6_ReapedUnconsumed ==
    /\ options.ownDatabase
    /\ ~closed
    /\ swept
    /\ idsUsed = 1
    /\ started = 1
    /\ \A e \in Slots : ex[e].pc = "idle"
    /\ database[1].v = 0

\* the names of the headers of the outbound request of slot e
Outbound(e) == DOMAIN ex[e].send

\* C7: no outbound request, HTTP or WebSocket, of any version, carries a
\* header named connection, content-length or transfer-encoding in any
\* letter case, wherever the name came from.
C7_NoForbiddenSendHeader ==
    \A e \in Slots :
        ex[e].connected => \A h \in Outbound(e) : toLowerCase(h) \notin forbiddenSendHeaders

\* C8: in v2 and v3, HTTP and WebSocket, no outbound header named connection,
\* transfer-encoding, host, origin or referer has its value copied from the
\* inbound request, whatever forward list the client gave.
C8_NoForbiddenForward ==
    \A e \in Slots :
        ex[e].connected /\ Version(ex[e].req.service) \in {2, 3} =>
            \A h \in Outbound(e) :
                ex[e].send[h] = "inbound" => toLowerCase(h) \notin forbiddenForwardHeaders

\* the exchange of slot e failed: routeRequest answered 500 UNKNOWN, or the
\* socket handler ended the socket
Failed(s) ==
    /\ s.pc = "done"
    /\ s.thrown.kind = "Error"
    /\ IF s.req.kind = "http"
       THEN s.resp.status = 500 /\ s.resp.code = "UNKNOWN"
       ELSE s.socket = "ended"

\* C9: in bareFetch, bareUpgradeFetch and webSocketFetch a configured
\* filterRemote has been called and has returned before the outbound
\* connection is created; when it throws, no connection is created and the
\* exchange fails; the default filter of blockLocal = true throws for a
\* non-unicast literal IP, which an HTTP exchange answers with 500 UNKNOWN;
\* without a filter (blockLocal = false) the connection is created.
C9_FilterBeforeConnect ==
    [][\A e \in Slots :
          ex[e].pc = "filter" /\ ex'[e].pc # "filter" =>
              /\ ~ex[e].connected
              /\ ex'[e].connected =>
                    /\ options.filter # "none" => ex'[e].filterCalled
                    /\ ~ex'[e].filterThrew
              /\ ex'[e].filterThrew => ~ex'[e].connected /\ Failed(ex'[e])
              /\ options.filter = "default" /\ ex[e].host = "ip_local" =>
                    ex'[e].filterThrew /\ Failed(ex'[e])
              /\ options.filter = "none" /\ supportedProtocol(ex[e].req.kind, ex[e].proto) =>
                    ex'[e].connected]_vars

\* a request through the default filter to a non-unicast literal IP was
\* answered 500 UNKNOWN without an outbound connection
C9_LocalBlocked ==
    \E e \in Slots :
        /\ Answered(e)
        /\ options.filter = "default"
        /\ ex[e].host = "ip_local"
        /\ ex[e].filterThrew
        /\ ~ex[e].connected
        /\ ex[e].resp.status = 500

\* the preflight answer: 200, the CORS headers, no body, nothing thrown, no
\* filter call and no outbound connection
Preflight(s) ==
    /\ s.resp = [Response(200, "", "", FALSE, FALSE) EXCEPT !.cors = TRUE]
    /\ s.thrown = NoError
    /\ ~s.filterCalled
    /\ ~s.connected
    /\ s.send = NoHeaders

\* C10 as stated: on every sub-path and in every configuration, an OPTIONS
\* request is answered 200 with the CORS headers and no body, without
\* validation and without an outbound request.
C10_OptionsAlways200 ==
    \A e \in Slots : Answered(e) /\ ex[e].req.method = "OPTIONS" => Preflight(ex[e])

\* C10, amended: on every sub-path and in every configuration, an OPTIONS
\* request that the rate limiter lets through is answered 200 with the CORS
\* headers and no body, without validation and without an outbound request;
\* the only other answer is the 429 of an enabled rate limiter whose points
\* for the client are used up.
C10_OptionsPastRateCheck ==
    \A e \in Slots :
        Answered(e) /\ ex[e].req.method = "OPTIONS" =>
            \/ Preflight(ex[e])
            \/ /\ ex[e].resp.status = 429
               /\ options.limiter
               /\ consumed[getClientIP(ex[e].client)] >= LimiterPoints

\* an OPTIONS request on an unregistered sub-path, with the rate limiter
\* enabled, was answered 200
C10_PreflightUnregistered ==
    \E e \in Slots :
        /\ Answered(e)
        /\ ex[e].req.method = "OPTIONS"
        /\ ex[e].req.service = "/v4/"
        /\ options.limiter
        /\ ex[e].resp.status = 200

\* C11: every HTTP response the server writes for a routed request (success,
\* handler error, 404 and the 429 of the rate limiter alike) carries the
\* fixed CORS headers and x-robots-tag.
C11_CorsOnEveryResponse ==
    \A e \in Slots : Answered(e) => ex[e].resp.cors

\* the listener handed the request of slot e to routeRequest / routeUpgrade
Routed(s) == s.pc # "idle" /\ s.req # NoRequest

\* C12: a request is routed (shouldRoute is true) exactly when its URL starts
\* with the mount prefix and close() has not been called; once close() has
\* been called the closed flag stays set and no later request is routed.
C12_ShouldRoute ==
    [][/\ \A e \in Slots :
             ex[e].pc = "idle" /\ ex'[e].pc # "idle" =>
                 (Routed(ex'[e]) <=>
                     /\ ex'[e].url.defined
                     /\ Len(ex'[e].url.chars) >= Len(directory)
                     /\ \A i \in 1..Len(directory) : ex'[e].url.chars[i] = directory[i]
                     /\ ~closed)
       /\ closed => closed' /\ \A e \in Slots : ex[e].pc = "idle" => ~Routed(ex'[e])]_vars

\* after close(), a request whose URL starts with the mount prefix was left to
\* the listener
C12_RefusedAfterClose ==
    /\ closed
    /\ \E e \in Slots :
          /\ ex[e].pc = "done"
          /\ ~Routed(ex[e])
          /\ ex[e].url = DefinedUrl(directory \o <<"/v1/ws-meta">>)

\* the sub-path of the request is no key of the routing table it is looked up in
Unregistered(req) ==
    IF req.kind = "http"
    THEN req.service \notin
             {"/", "/v1/", "/v1/ws-new-meta", "/v1/ws-meta",
              "/v2/", "/v2/ws-new-meta", "/v2/ws-meta", "/v3/"}
    ELSE req.service \notin {"/v1/", "/v2/", "/v3/"}

\* no route handler ran for the exchange: nothing parsed, no record read or
\* written, no filter call, no outbound request, no handshake
NoHandler(s) ==
    /\ s.send = NoHeaders
    /\ s.meta = NoMeta
    /\ ~s.filterCalled
    /\ ~s.connected
    /\ ~s.handshake
    /\ ~s.stored
    /\ s.thrown \in {NoError, HttpNotFound}

\* the 404 answer of routeRequest
NotFoundAnswer(s) ==
    /\ s.resp = [json(404, "UNKNOWN", "NotFoundError") EXCEPT !.cors = TRUE]
    /\ s.thrown = HttpNotFound

\* C13 as stated: in every configuration, a non-OPTIONS HTTP request on an
\* unregistered sub-path is answered 404 without a handler, and an upgrade on
\* an unregistered sub-path has its socket ended without a handler.
C13_UnknownAlways404 ==
    \A e \in Slots :
        ex[e].pc = "done" /\ Routed(ex[e]) /\ Unregistered(ex[e].req)
        /\ ex[e].req.method # "OPTIONS" =>
            /\ NoHandler(ex[e])
            /\ IF ex[e].req.kind = "http" THEN NotFoundAnswer(ex[e])
               ELSE ex[e].socket = "ended"

\* C13, amended: a non-OPTIONS HTTP request on an unregistered sub-path that
\* the rate limiter lets through is answered with the 404 JSON error and no
\* handler runs (the only other answer is the 429 of an enabled rate limiter
\* whose points for the client are used up); an upgrade on an unregistered
\* sub-path has its socket ended without a handler.
C13_UnknownPastRateCheck ==
    \A e \in Slots :
        ex[e].pc = "done" /\ Routed(ex[e]) /\ Unregistered(ex[e].req)
        /\ ex[e].req.method # "OPTIONS" =>
            /\ NoHandler(ex[e])
            /\ IF ex[e].req.kind = "http"
               THEN \/ NotFoundAnswer(ex[e])
                    \/ /\ ex[e].resp.status = 429
                       /\ options.limiter
                       /\ consumed[getClientIP(ex[e].client)] >= LimiterPoints
               ELSE ex[e].socket = "ended"

\* with the rate limiter enabled, a GET on an unregistered sub-path was
\* answered 404
C13_NotFoundAnswered ==
    \E e \in Slots :
        /\ Answered(e)
        /\ ex[e].req.method = "GET"
        /\ ex[e].req.service = "/v4/"
        /\ options.limiter
        /\ NotFoundAnswer(ex[e])

Exhausted(keepAlive, points) ==
    IF keepAlive THEN points + 1 > LimiterPoints
    ELSE points > 0 /\ points >= LimiterPoints

\* C15: when the rate check rejects an exchange, no route handler or socket
\* route runs and no outbound request is made; routeRequest answers 429 with
\* Retry-After, RateLimit-Limit, RateLimit-Remaining, RateLimit-Reset and a
\* body with code CONNECTION_LIMIT_EXCEEDED, and routeUpgrade writes that
\* answer on the raw socket and ends it.
C15_RejectedNotRouted ==
    [][\A e \in Slots :
          /\ options.limiter
          /\ ex[e].pc = "idle"
          /\ ex'[e].pc # "idle"
          /\ Exhausted(ex'[e].keepAlive, consumed[getClientIP(ex'[e].client)])
          => /\ ex'[e].pc = "done"
             /\ NoHandler(ex'[e])
             /\ ex'[e].thrown = NoError
             /\ ex'[e].resp.status = 429
             /\ ex'[e].resp.code = "CONNECTION_LIMIT_EXCEEDED"
             /\ ex'[e].resp.body
             /\ ex'[e].resp.rate = RateLimitHeaders
             /\ ex'[e].socket = IF ex'[e].req.kind = "http" THEN "none" ELSE "ended"]_vars

\* an upgrade on the registered socket route /v3/ was rejected: 429 on the
\* socket, socket ended, no handshake
C15_UpgradeRejected ==
    \E e \in Slots :
        /\ ex[e].pc = "done"
        /\ ex[e].req.kind = "upgrade"
        /\ ex[e].req.service = "/v3/"
        /\ ex[e].resp.status = 429
        /\ ex[e].socket = "ended"
        /\ ~ex[e].handshake

\* the remote answered the tunnel request of slot e with a response, and
\* routeRequest has written the answer to the client
Tunneled(e) ==
    /\ Answered(e)
    /\ IsTunnel(ex[e].req.service)
    /\ ex[e].upstream # NoUpstream

\* the envelope names the remote's status, status text and headers
Described(headers) ==
    /\ headers.status # 0
    /\ headers.text # 0
    /\ headers.whole # 0 \/ headers.parts # <<>>

\* C16: the envelope status of a tunneled HTTP request equals the upstream
\* status when that status is in passStatus (the x-bare-pass-status list,
\* plus 304 in cache mode; empty in v1), and 200 otherwise.
C16_EnvelopeStatus ==
    \A e \in Slots :
        Tunneled(e) =>
            LET req == ex[e].req
                pass == IF Version(req.service) = 1 THEN {}
                        ELSE req.pass \cup (IF req.cache THEN {304} ELSE {})
            IN  ex[e].resp.status =
                    IF ex[e].upstream.status \in pass THEN ex[e].upstream.status ELSE 200

C19_NullBody ==
    \A e \in Slots :
        Tunneled(e) /\ ex[e].upstream.status \in {101, 204, 205, 304} => ~ex[e].resp.body

\* C20: in v1, v2 and v3 no envelope response carries an x-bare-headers value
\* longer than 3072 characters: a longer value is replaced by the fragments
\* x-bare-headers-0, x-bare-headers-1, ...
C20_SplitEveryVersion ==
    \A e \in Slots :
        Tunneled(e) /\ ex[e].thrown = NoError =>
            /\ ex[e].resp.headers.whole <= 3072
            /\ Described(ex[e].resp.headers) /\ ex[e].upstream.length > 3072 =>
                   ex[e].resp.headers.parts # <<>>

\* C21: for an x-bare-headers value longer than 3072 characters,
\* joinHeaders(splitHeaders(h)) is the original single value, whatever the
\* number of fragments, and every fragment is ';' followed by at most 3072
\* characters; a value of at most 3072 characters is left unsplit.
C21_SplitJoinRoundTrip ==
    calc.op = "split" =>
        /\ calc.stage >= 1 =>
              IF Length(calc.arg.whole) > 3072
              THEN /\ ~calc.mid.has
                   /\ \A id \in DOMAIN calc.mid.parts :
                         /\ Head(calc.mid.parts[id]).c = ";"
                         /\ Length(calc.mid.parts[id]) <= 1 + 3072
              ELSE calc.mid = calc.arg
        /\ calc.stage = 2 /\ Length(calc.arg.whole) > 3072 =>
              calc.out = Joined(NoError, calc.arg)

\* the same for the values none of whose cuts falls right after white space
C21_RoundTripWithoutTrim ==
    /\ calc.op = "split"
    /\ calc.stage = 2
    /\ Length(calc.arg.whole) > 3072
    /\ \A id \in DOMAIN calc.mid.parts :
          calc.mid.parts[id][Len(calc.mid.parts[id])].c # " "
          /\ Length(calc.mid.parts[id]) =
                 1 + Min(3072, Length(calc.arg.whole) - id * 3072)
    => calc.out = Joined(NoError, calc.arg)

\* C22: joinHeaders fails with INVALID_BARE_HEADER whenever x-bare-headers-0
\* is present and some fragment value does not begin with ';'; without
\* x-bare-headers-0 it returns the headers unchanged.
C22_JoinRejectsBadFragment ==
    calc.op = "join" /\ calc.stage = 1 =>
        LET parts == calc.arg.parts
        IN  /\ (0 \in DOMAIN parts
                 /\ \E id \in DOMAIN parts : parts[id] = <<>> \/ Head(parts[id]).c # ";")
                => calc.out.err.code = "INVALID_BARE_HEADER"
            /\ 0 \notin DOMAIN parts => calc.out = Joined(NoError, calc.arg)

\* joinHeaders has rejected headers whose fragment 0 is well-formed and whose
\* fragment 2 lacks the semicolon
C22_LaterFragmentRejected ==
    /\ calc.op = "join"
    /\ calc.stage = 1
    /\ DOMAIN calc.arg.parts = {0, 2}
    /\ calc.arg.parts[0] = <<Run(";", 1), Run("x", 2)>>
    /\ calc.arg.parts[2] = <<Run("x", 3)>>
    /\ calc.out.err.code = "INVALID_BARE_HEADER"

\* C23: decodeProtocol(encodeProtocol(s)) = s for every string s, the reserve
\* character and the code units above 0xFF included
C23_ProtocolRoundTrip ==
    calc.op = "encode" /\ calc.stage = 2 => calc.out = calc.arg

\* the same for the strings whose code units are all at most 0xFF
C23_RoundTripUpToFF ==
    /\ calc.op = "encode"
    /\ calc.stage = 2
    /\ \A i \in DOMAIN calc.arg : calc.arg[i] <= 255
    => calc.out = calc.arg

\* an x-bare-port value that writes a decimal integer, and the integer
IsInteger(port) ==
    /\ port # <<>>
    /\ LET unsigned == IF port[1] = 45 THEN Tail(port) ELSE port
       IN  unsigned # <<>> /\ leadingDigits(unsigned, 10) = Len(unsigned)

IntegerOf(port) ==
    IF port[1] = 45 THEN 0 - digitsValue(Tail(port), 10) ELSE digitsValue(port, 10)

\* the envelope reaches the check of its two lists: nothing before it fails
ListsReached(env) ==
    /\ env.version \in {2, 3}
    /\ env.json
    /\ env.absent \cap (IF env.version = 3 THEN {"x-bare-url"}
                        ELSE {"x-bare-host", "x-bare-port", "x-bare-protocol",
                              "x-bare-path"}) = {}
    /\ "x-bare-headers" \notin env.absent
    /\ IF env.version = 3 THEN env.url \in validURLs
       ELSE env.port = <<56, 48>> /\ env.protocol \in validProtocols

\* C24: in v2 and v3 an envelope whose x-bare-pass-headers names vary,
\* connection, transfer-encoding or any access-control-* header, or whose
\* x-bare-forward-headers names a forbidden forward header, fails with
\* FORBIDDEN_BARE_HEADER, whatever the case of the names
C24_ForbiddenListsRejected ==
    /\ calc.op = "read"
    /\ calc.stage = 1
    /\ ListsReached(calc.arg)
    /\ \/ \E h \in passList(calc.arg) :
             \/ h \in {"vary", "connection", "transfer-encoding"}
             \/ h \in {"access-control-allow-origin", "access-control-allow-headers",
                       "access-control-max-age"}
       \/ forwardList(calc.arg) \cap forbiddenForwardHeaders # {}
    => calc.out.err.code = "FORBIDDEN_BARE_HEADER"

\* the same for the names of the code's list of forbidden pass headers
C24_ListedNamesRejected ==
    /\ calc.op = "read"
    /\ calc.stage = 1
    /\ ListsReached(calc.arg)
    /\ \/ passList(calc.arg) \cap forbiddenPassHeaders # {}
       \/ forwardList(calc.arg) \cap forbiddenForwardHeaders # {}
    => calc.out.err.code = "FORBIDDEN_BARE_HEADER"

\* the headers each version requires, in the order readHeaders asks for them
Required(version) ==
    CASE version = 1 -> <<"x-bare-host", "x-bare-port", "x-bare-protocol", "x-bare-path",
                          "x-bare-headers", "x-bare-forward-headers">>
      [] version = 2 -> <<"x-bare-host", "x-bare-port", "x-bare-protocol", "x-bare-path",
                          "x-bare-headers">>
      [] OTHER -> <<"x-bare-url", "x-bare-headers">>

\* a header that is present with a value of the kind the claim asks of it
WellFormed(env, name, integer(_)) ==
    /\ name \notin env.absent
    /\ name = "x-bare-port" => integer(env.port)
    /\ name = "x-bare-protocol" => env.protocol \in {"http:", "https:", "ws:", "wss:"}
    /\ name = "x-bare-url" => env.url \in validURLs
    /\ name = "x-bare-headers" => env.json

\* the first required header that is not well formed is the one the error names:
\* MISSING_BARE_HEADER when it is absent, INVALID_BARE_HEADER for a port or a
\* protocol of the wrong kind
ParsingFails(integer(_)) ==
    calc.op = "read" /\ calc.stage = 1
    => LET env == calc.arg
           required == Required(env.version)
       IN  \A i \in DOMAIN required :
              /\ \A j \in 1..(i - 1) : WellFormed(env, required[j], integer)
              /\ ~WellFormed(env, required[i], integer)
              /\ required[i] \in env.absent \/ required[i] \in {"x-bare-port", "x-bare-protocol"}
              => /\ calc.out.err.kind = "BareError"
                 /\ calc.out.err.id = required[i]
                 /\ calc.out.err.code =
                       IF required[i] \in env.absent THEN "MISSING_BARE_HEADER"
                       ELSE "INVALID_BARE_HEADER"

\* a port that parseInt makes a number of
Numeric(port) == ~parseInt(port, 0).nan

\* C25: envelope parsing fails with MISSING_BARE_HEADER, naming the header, when
\* a required header is absent (host, port, protocol, path, headers for v1 and
\* v2, forward-headers too for v1, url and headers for v3) and with
\* INVALID_BARE_HEADER when x-bare-port is not an integer or the protocol of v1
\* or v2 is none of http:, https:, ws:, wss:
C25_ParsingFails == ParsingFails(IsInteger)

\* the same with "not an integer" read as "parseInt gives no number"
C25_ParsingFailsOnNaN == ParsingFails(Numeric)

\* C26: in v1 and v2 an x-bare-port that does not write an integer of 1..65535
\* (0, a negative number, a number above 65535, "80abc") is rejected with
\* INVALID_BARE_HEADER
C26_PortInRange ==
    /\ calc.op = "read"
    /\ calc.stage = 1
    /\ calc.arg.version \in {1, 2}
    /\ calc.arg.absent \cap {"x-bare-host", "x-bare-port"} = {}
    /\ ~(IsInteger(calc.arg.port) /\ IntegerOf(calc.arg.port) \in 1..65535)
    => /\ calc.out.err.code = "INVALID_BARE_HEADER"
       /\ calc.out.err.id = "x-bare-port"

\* what holds of the port: without a number it is rejected with
\* INVALID_BARE_HEADER, and an envelope is accepted only with a port of 0..65535
C26_PortParsed ==
    /\ calc.op = "read"
    /\ calc.stage = 1
    /\ calc.arg.version \in {1, 2}
    /\ calc.arg.absent \cap {"x-bare-host", "x-bare-port"} = {}
    => /\ ~Numeric(calc.arg.port) =>
             calc.out.err = BareError(400, "INVALID_BARE_HEADER", "x-bare-port")
       /\ calc.out.err = NoError =>
             /\ IsInteger(calc.arg.port)
             /\ IntegerOf(calc.arg.port) \in 0..65535
             /\ calc.out.port = IntegerOf(calc.arg.port)

\* C27: in a v3 WebSocket session the client receives the open message before
\* any message relayed from the remote, however the remote's messages fall
\* among the steps of the handshake
C27_OpenBeforeRelayed ==
    \A e \in Slots :
        ex[e].req.service = "/v3/" /\ ex[e].got # <<>> => ex[e].got[1] = "open"

\* a message of the remote came before the relay listened and was not passed
\* on; a later one reached the client after the open message
C27_RelayedAfterOpen ==
    \E e \in Slots :
        /\ ex[e].req.service = "/v3/"
        /\ ex[e].missed > 0
        /\ ex[e].got = <<"open", "message">>

\* the relay of slot e is established and its client side is gone
ClientSideGone(e) == ex[e].remote # "none" /\ ClientGone(ex[e])

\* the relay of slot e is established and its remote side is gone
RemoteSideGone(e) == ex[e].remote = "closed"

\* C28: in every WebSocket relay (v1, v2, v3), once the remote connection is
\* established, a close of the client or of the remote at any later moment, the
\* time between the remote's open and the relay listeners included, eventually
\* closes the other side
C28_CloseReachesOtherSide ==
    \A e \in Slots :
        /\ ClientSideGone(e) ~> RemoteSideGone(e)
        /\ RemoteSideGone(e) ~> ClientSideGone(e)

\* the same for the relays of v1 and v2
C28_CloseReachesOtherSideV1V2 ==
    \A e \in Slots :
        /\ ClientSideGone(e) /\ ex[e].req.service # "/v3/" ~> RemoteSideGone(e)
        /\ RemoteSideGone(e) /\ ex[e].req.service # "/v3/" ~> ClientSideGone(e)

\* C29: when the outbound upgrade of a WebSocket exchange fails (the filter
\* rejects the remote, the transport fails, the remote answers without
\* upgrading), the exchange is over with the client's socket ended, and on v1
\* and v2 no 101 handshake was written
C29_UpgradeFailureEndsClient ==
    [][\A e \in Slots :
          /\ ex[e].req.kind = "upgrade"
          /\ ex[e].pc \in {"filter", "fetch"}
          /\ ex'[e].thrown # NoError
          => /\ ex'[e].pc = "done"
             /\ ex'[e].socket = "ended"
             /\ Version(ex'[e].req.service) \in {1, 2} => ~ex'[e].handshake]_vars

\* the outbound upgrade of a v1 exchange was sent and failed
C29_UpgradeFailed ==
    \E e \in Slots :
        /\ ex[e].req.kind = "upgrade"
        /\ ex[e].req.service = "/v1/"
        /\ ex[e].connected
        /\ ex[e].thrown # NoError
        /\ ex[e].pc = "done"
        /\ ex[e].socket = "ended"
        /\ ~ex[e].handshake

\* the outgoing request of slot e was aborted
Aborted(s) == s.pc = "done" /\ s.thrown = PlainError("AbortError")

\* C30: if the client's connection closes before the body of a tunnel request
\* has all arrived, while the outbound request is pending, the exchange's
\* abort signal fires and the outbound request is aborted; a request whose
\* body arrived whole never fires the signal through the request's close
C30_CloseBeforeBodyAborts ==
    [][\A e \in Slots :
          /\ /\ ex[e].req.kind = "http"
             /\ ex[e].pc = "fetch"
             /\ ~ex[e].complete
             /\ ex[e].inbound = "open"
             /\ ex'[e].inbound = "closed"
             => ex'[e].aborted = "inbound" /\ Aborted(ex'[e])
          /\ ex'[e].complete => ex'[e].aborted # "inbound"]_vars

\* a request's connection closed before its body had arrived, and the pending
\* outbound request was aborted
C30_AbortedByClose ==
    \E e \in Slots :
        /\ ex[e].req.body
        /\ ~ex[e].complete
        /\ ex[e].inbound = "closed"
        /\ ex[e].connected
        /\ ex[e].aborted = "inbound"
        /\ Aborted(ex[e])

\* a request's body arrived whole and its connection closed: the signal fired,
\* not through the request's close
C30_CompleteThenClosed ==
    \E e \in Slots :
        /\ ex[e].req.body
        /\ ex[e].complete
        /\ ex[e].inbound = "closed"
        /\ ex[e].aborted = "response"

\* the outgoing request of the exchange is pending
Pending(s) == s.pc = "fetch"

\* C31: close() cancels every exchange in flight: in the step of close(),
\* every pending outgoing request is ended (aborted by the token, or failed in
\* any other way) and the sockets of every relay are destroyed.
C31_CloseCancelsAll ==
    [][(~closed /\ closed') =>
          \A e \in Slots :
             /\ Pending(ex[e]) => ex'[e].pc = "done"
             /\ ex[e].pc = "relaying" => ClientGone(ex'[e]) /\ ex'[e].remote = "closed"]_vars

\* C32 as stated: after close() both pools are destroyed and the reaper has
\* not run, whoever created the pools and the database.
C32_CloseDestroysPools ==
    closed => (\A a \in Agents : agents[a] = "destroyed") /\ ~swept

\* C32, amended: after close() the pools the server created itself are
\* destroyed, the pools the caller supplied are left open, and the reaper
\* (set only for a database the server created) has not run since.
C32_CloseDestroysOwnPools ==
    closed => /\ \A a \in Agents : agents[a] = "destroyed" <=> a \in options.cleanup
              /\ \A a \in Agents : agents[a] = "open" <=> a \notin options.cleanup
              /\ ~swept

\* C32 witness: a closed server that created its HTTP pool and its database
\* and was given the HTTPS pool, closed while an exchange was in flight
C32_ClosedWithSuppliedPool ==
    /\ closed
    /\ options.reaper
    /\ agents["http:"] = "destroyed"
    /\ agents["https:"] = "open"
    /\ \E e \in Slots : ex[e].pc \notin {"idle", "done"}

\* C33: a meta record that is gone never comes back: a record comes into the
\* store only by the database.set of the ws-new-meta request that drew its id
\* (ids are drawn once), so the id of a record ws-meta has consumed never
\* becomes readable again; no relay's write after its upgrade re-creates it.
C33_ConsumedStaysGone ==
    [][\A i \in Ids :
          database[i].v = 0 /\ database'[i].v # 0
          => \E e \in Slots : /\ ex[e].pc = "metaSet"
                              /\ ex[e].req.id = i
                              /\ IsNewMeta(ex[e].req.service)]_vars


\* C34: ws-meta consumes only a record the relay has stored the remote's
\* response in: every ws-meta request of v1 or v2 that was answered with the
\* record read one that held the response.
C34_ConsumedOnlyWhenReady ==
    \A e \in Slots : Consumed(e) => ex[e].meta.response


\* slot r holds a v1 or v2 relay that found the record of its id registered
\* and has written the 101 handshake to the client
Handshaken(r) ==
    /\ ex[r].req.kind = "upgrade"
    /\ Version(ex[r].req.service) \in {1, 2}
    /\ ex[r].req.id # NoId
    /\ ex[r].meta.v = Version(ex[r].req.service)
    /\ ex[r].handshake

\* C35: the relay of v1 and v2 stores the remote's response before it writes
\* the 101 handshake: a ws-meta request that reads the record of a relay's id
\* after that relay's handshake, while the record is registered and not
\* consumed, is not refused and reads a record that holds the response.
C35_ReadyAfterHandshake ==
    [][\A m, r \in Slots :
          /\ ex[m].pc = "metaGet"
          /\ ex'[m].pc # "metaGet"
          /\ Handshaken(r)
          /\ ex[r].req.id = ex[m].req.id
          /\ Version(ex[r].req.service) = Version(ex[m].req.service)
          /\ database[ex[m].req.id].v = Version(ex[m].req.service)
          => ex'[m].thrown = NoError /\ ex'[m].meta.response]_vars

\* C35 witness: a ws-meta request was answered with the stored response while
\* the relay that stored it is established
C35_ConsumedAfterHandshake ==
    \E m, r \in Slots :
        /\ Consumed(m)
        /\ ex[m].meta.response
        /\ Handshaken(r)
        /\ ex[r].stored
        /\ ex[r].pc = "relaying"
        /\ ex[r].req.id = ex[m].req.id
        /\ Version(ex[r].req.service) = Version(ex[m].req.service)


\* C36: a meta record whose expires time has passed is never served: a
\* ws-meta request that reads a record and is not refused read one with
\* expires >= now, whether or not the reaper has swept since.
C36_ExpiredNeverServed ==
    [][\A m \in Slots :
          /\ ex[m].pc = "metaGet"
          /\ ex'[m].pc \in {"metaDel", "done"}
          /\ ex'[m].thrown = NoError
          => database[ex[m].req.id].expires >= now]_vars


\* the exchange passed the validation of its handler: the envelope of a tunnel
\* request parsed; the first subprotocol of a v1 upgrade was bare; the
\* subprotocol of a v2 upgrade was the id of a stored record of version 2;
\* the first message of a v3 session was a connect message
Validated(s) ==
    CASE s.req.kind = "http" ->
            IsTunnel(s.req.service) /\ readHeaders(s.req).err = NoError
      [] s.req.kind = "upgrade" /\ s.req.service = "/v1/" -> s.req.wsproto = "ok"
      [] s.req.kind = "upgrade" /\ s.req.service = "/v2/" ->
            s.req.id # NoId /\ s.meta.v = 2
      [] s.req.kind = "upgrade" /\ s.req.service = "/v3/" -> s.req.wsproto = "ok"
      [] OTHER -> FALSE

\* C37: no outbound connection is opened for an exchange that has not passed
\* validation: an exchange with an outgoing request is a validated one, and
\* the filter (the step before the outgoing request) is reached by validated
\* exchanges only.
C37_ValidatedBeforeOutbound ==
    \A e \in Slots :
        ex[e].connected \/ ex[e].pc \in {"filter", "fetch"} => Validated(ex[e])

\* C37 witness: a v3 session whose first message was not a connect message
\* ended without an outgoing request
C37_UnconnectedSessionEnded ==
    \E e \in Slots :
        /\ ex[e].pc = "done"
        /\ ex[e].req.kind = "upgrade"
        /\ ex[e].req.service = "/v3/"
        /\ ex[e].req.wsproto = "other"
        /\ ex[e].socket = "ended"
        /\ ~ex[e].filterCalled
        /\ ~ex[e].connected

\* the names of the x-bare-* headers of a response
BareNames ==
    {"x-bare-status", "x-bare-status-text", "x-bare-headers", "x-bare-headers-0",
     "x-bare-headers-1"}

\* C38: the headers written for a tunnel response of v2 / v3 are the remote's
\* headers named in passHeaders, the x-bare-* headers and the fixed CORS set,
\* and each header of the fixed set has its fixed value whatever the remote
\* sent.
C38_EnvelopeHeaders ==
    calc.op = "pass" /\ calc.stage = 2 =>
        /\ \A h \in DOMAIN calc.out :
              \/ h \in DOMAIN fixedHeaders
              \/ h \in BareNames
              \/ h \in calc.arg.pass /\ h \in calc.arg.upstream /\ calc.out[h] = "upstream"
        /\ \A h \in DOMAIN fixedHeaders :
              h \in DOMAIN calc.out /\ calc.out[h] = fixedHeaders[h]

\* C38 witness: the client listed access-control-allow-origin and x-robots-tag
\* to pass, the remote sent both, and the response written has the fixed
\* values and a passed header of the remote
C38_UpstreamCorsOverwritten ==
    /\ calc.op = "pass"
    /\ calc.stage = 2
    /\ {"access-control-allow-origin", "x-robots-tag"} \subseteq calc.arg.pass \cap calc.arg.upstream
    /\ calc.mid["access-control-allow-origin"] = "upstream"
    /\ calc.out["access-control-allow-origin"] = "*"
    /\ calc.out["x-robots-tag"] = "noindex"
    /\ "content-length" \in DOMAIN calc.out
    /\ calc.out["content-length"] = "upstream"


\* C39: no message of a v3 relay is lost: while the client is there, every
\* message the remote has sent since its connection opened has been sent on
\* to the client (after the open message, in order), also those the remote
\* sent before the callback of the open message installed the listeners.
C39_NoMessageLost ==
    \A e \in Slots :
        ex[e].req.service = "/v3/" /\ ~ClientGone(ex[e]) =>
            /\ ex[e].missed = 0
            /\ \A i \in DOMAIN ex[e].got : ex[e].got[i] = "open" <=> i = 1


\* the tunnel route of a protocol version
TunnelOf == [v1 |-> "/v1/", v2 |-> "/v2/", v3 |-> "/v3/"]

\* the protocol versions whose handlers are in the routing tables
RegisteredVersions ==
    {v \in DOMAIN TunnelOf :
        TunnelOf[v] \in routing.routes /\ TunnelOf[v] \in routing.socketRoutes}

\* the versions list names every registered version once, and with
\* legacySupport false it is v3 alone
VersionsRegistered ==
    /\ {routing.versions[i] : i \in DOMAIN routing.versions} = RegisteredVersions
    /\ Len(routing.versions) = Cardinality(RegisteredVersions)
    /\ routing.versions = IF options.legacySupport THEN <<"v1", "v2", "v3">> ELSE <<"v3">>
    /\ \A e \in Slots :
           Answered(e) /\ ex[e].req.service = "/" /\ ex[e].resp.status = 200
           /\ ex[e].req.method # "OPTIONS" =>
               ex[e].resp.versions = routing.versions

\* a finished exchange on a /v1/ or /v2/ sub-path of a server without the
\* legacy versions
LegacyOff(e) ==
    /\ ~options.legacySupport
    /\ ex[e].pc = "done"
    /\ Routed(ex[e])
    /\ Version(ex[e].req.service) \in {1, 2}

\* C40 as stated: handling requests never changes routes, socketRoutes and
\* versions, the manifest's versions are the registered versions (v3 alone
\* when legacySupport is false), and with legacySupport false every
\* non-OPTIONS HTTP request on a /v1/ or /v2/ sub-path is answered 404.
C40_LegacyOffAlways404 ==
    /\ [][routing' = routing]_vars
    /\ [](/\ VersionsRegistered
          /\ \A e \in Slots :
                 LegacyOff(e) /\ ex[e].req.kind = "http"
                 /\ ex[e].req.method # "OPTIONS" =>
                     NotFoundAnswer(ex[e]))

\* C40, amended: handling requests never changes routes, socketRoutes and
\* versions, the manifest's versions are the registered versions (v3 alone
\* when legacySupport is false), and with legacySupport false no v1 or v2
\* handler runs: a non-OPTIONS HTTP request on a /v1/ or /v2/ sub-path is
\* answered 404 when the rate limiter lets it through and 429 when it does
\* not, an OPTIONS request there is answered 200 or 429 alike, and an upgrade
\* there has its socket ended.
C40_RoutingFixed ==
    /\ [][routing' = routing]_vars
    /\ [](/\ VersionsRegistered
          /\ \A e \in Slots :
                 LegacyOff(e) =>
                     /\ NoHandler(ex[e])
                     /\ IF ex[e].req.kind # "http" THEN ex[e].socket = "ended"
                        ELSE \/ /\ ex[e].resp.status = 429
                                /\ options.limiter
                                /\ consumed[getClientIP(ex[e].client)] >= LimiterPoints
                             \/ IF ex[e].req.method = "OPTIONS"
                                THEN Preflight(ex[e])
                                ELSE NotFoundAnswer(ex[e]))

\* a server without the legacy versions lists v3 alone and has answered a
\* GET on /v2/ with 404
C40_LegacyOffNotFound ==
    /\ ~options.legacySupport
    /\ routing.versions = <<"v3">>
    /\ \E e \in Slots :
           /\ Answered(e)
           /\ ex[e].req.method = "GET"
           /\ ex[e].req.service = "/v2/"
           /\ NotFoundAnswer(ex[e])

====
